---- MODULE Spec2Model ----
(***************************************************************************)
(* Review workflow of scripts/upscale_textures.py: the ReviewSession       *)
(* (records, revision, finalized flag, manifest file, artifacts on disk),  *)
(* the request threads of the ThreadingHTTPServer that call into it, and   *)
(* the start of a review run (prepare_review_records + first save).        *)
(*                                                                         *)
(* File contents are abstract values [item, by, fmt, origin]: which image   *)
(* the bytes belong to, what produced them ("original" = the source bytes, *)
(* a preset name = the upscaler run with that preset's model and scale),   *)
(* the container format they are stored in and, for a TGA written by the   *)
(* converter, whether normalize_tga_for_ioquake has processed it.  The     *)
(* external tools are deterministic for a fixed input, model and scale; a  *)
(* tool run that fails leaves its output file as it was.                   *)
(***************************************************************************)
EXTENDS Integers, Sequences, FiniteSets, TLC

\* ---------------------------------------------------------------- bounds
NumItems == 2
NumThreads == 2
MaxRevision == 2
MaxSeqRevision == 3
MaxDimension == 2
MaxSide == 2
MaxPackets == 2
MaxPresets == 3
MaxSegments == 3
MaxHttpRevision == 2
MaxEntries == 2

\* ------------------------------------------------------------- constants
REVIEW_STATUS_ACCEPTED == "accepted"
REVIEW_STATUS_REJECTED == "rejected"

Items == 1..NumItems                \* identities discovered in this run
GoneItem == NumItems + 1            \* an identity that is not discovered now
Threads == 1..NumThreads

ValidStatuses == {REVIEW_STATUS_ACCEPTED, REVIEW_STATUS_REJECTED}
RequestStatuses == ValidStatuses \cup {"maybe"}

\* the configured presets, in order (name -> model)
preset_order == <<"default", "anime">>
PresetNames == {preset_order[k] : k \in 1..Len(preset_order)}
RequestPresets == PresetNames \cup {"retired"}
PresetModel(name) == IF name = "default" THEN "realesrgan-x4plus"
                     ELSE "realesrgan-x4plus-anime"

\* failure texts, by the tool that failed: run_subprocess on the converter, on the
\* upscaler, and normalize_tga_for_ioquake
NoError == "null"
ErrConvert == "converter command failed"
ErrUpscale == "upscaler command failed"
ErrNormalize == "TGA normalization failed"
ErrUnknownRel == "Unknown rel_path"
ErrUnknownPreset == "Unknown preset"
ErrModelMissing == "Preset model is not available"
ErrInvalidStatus == "Invalid status"
\* errors raised by the pipeline (tools, codec) and by the argument checks
PipelineErrors == {ErrConvert, ErrUpscale, ErrNormalize}
RejectionErrors == {ErrInvalidStatus, ErrUnknownRel, ErrUnknownPreset, ErrModelMissing}

\* file suffix of an identity
Ext(i) == IF i % 3 = 1 THEN "tga" ELSE IF i % 3 = 2 THEN "png" ELSE "jpg"

\* ---------------------------------------------------------- file contents
Absent == [item |-> 0, by |-> "absent", fmt |-> "none", origin |-> "none"]
SourceBytes(i) == [item |-> i, by |-> "original", fmt |-> Ext(i), origin |-> "source"]
\* what the converter writes for the upscaler's output before normalization
Converted(i, preset) ==
    [item |-> i, by |-> preset, fmt |-> Ext(i),
     origin |-> IF Ext(i) = "tga" THEN "converter" ELSE "none"]
\* what upscale_one_image leaves at staging_dir / rel_path on success
Upscaled(i, preset) ==
    [item |-> i, by |-> preset, fmt |-> Ext(i),
     origin |-> IF Ext(i) = "tga" THEN "bottom-left" ELSE "none"]
\* what make_browser_preview writes for a source file with content c:
\* a copy when the source is a .png, a conversion to PNG otherwise
BrowserPreview(c) ==
    IF c.fmt = "png" THEN c ELSE [c EXCEPT !.fmt = "png", !.origin = "none"]

\* ------------------------------------------------------------- manifest
NoSummary == [packaged_files |-> -1]
NoManifest == [version |-> 0]
NoPayload == [version |-> -1]

VARIABLES
    phase,              \* "boot" before the session exists, then "serving"
    records,            \* session.records: identity -> record
    revision,           \* session.revision
    finalized,          \* session.finalized
    finalize_summary,   \* session.finalize_summary
    lock,               \* session.lock is held
    manifest,           \* content of the manifest file
    original,           \* review/original/<rel>
    candidate,          \* review/candidate/<rel>
    preview_original,   \* review/preview/original/<rel>.png
    preview_candidate,  \* review/preview/candidate/<rel>.png
    final_package,      \* review/final_package tree: path -> content
    output_pk3,         \* the packaged archive: entry -> content
    pc,                 \* position of each request thread
    op,                 \* the session operation the thread's request calls
    arg_rel,            \* rel_path argument
    arg_val,            \* status argument (decide) or preset argument (rerun)
    previous_status,    \* rerun_one's local previous_status
    exc,                \* the UpscaleError raised in the thread's call
    copied,             \* finalize_package's local copied
    payload,            \* the payload api_state returned
    saves,              \* per call: revision increments and manifest writes
    entry,              \* history: the session and its files when the lock was taken
    since_finalize,     \* history: "none" before the first finalize, then "clean"
                        \* until a decide or rerun takes effect, then "dirty"
    prep,               \* the per-item loop of the preparation or of the batch run,
                        \* or what load_previous_decisions made of the manifest
    tga,                \* a TGA file handed to the codec, and what the codec made of it
    built,              \* the arguments of build_rerun_presets and its result
    http                \* the review server: the last request and its responses,
                        \* or how far its shutdown has got

sessionVars == <<records, revision, finalized, finalize_summary>>
fileVars == <<manifest, original, candidate, preview_original, preview_candidate,
              final_package, output_pk3>>
threadVars == <<pc, op, arg_rel, arg_val, previous_status, exc, copied,
                payload, saves>>
vars == <<phase, sessionVars, lock, fileVars, threadVars, entry, since_finalize, prep,
          tga, built, http>>

\* ------------------------------------------------------ session helpers
RECURSIVE SortedSeq(_)
SortedSeq(S) == IF S = {} THEN <<>>
                ELSE LET m == CHOOSE x \in S : \A y \in S : x <= y
                     IN <<m>> \o SortedSeq(S \ {m})

CountStatus(recs, st) == Cardinality({k \in DOMAIN recs : recs[k].status = st})

summary(recs) ==
    [total |-> Cardinality(DOMAIN recs),
     accepted |-> CountStatus(recs, REVIEW_STATUS_ACCEPTED),
     rejected |-> CountStatus(recs, REVIEW_STATUS_REJECTED)]

to_manifest_dict(k, rec) ==
    [rel_path |-> k, status |-> rec.status, selected_preset |-> rec.selected_preset,
     last_error |-> rec.last_error]

manifest_payload(recs, rev, fin, finsum) ==
    [version |-> 1,
     revision |-> rev,
     summary |-> summary(recs),
     finalized |-> fin,
     finalize_summary |-> finsum,
     images |-> LET keys == SortedSeq(DOMAIN recs)
                IN [n \in 1..Len(keys) |-> to_manifest_dict(keys[n], recs[keys[n]])]]

\* self.revision += 1 in save_manifest
NextRevisionStuck(r) == r
NextRevision(r) == r + 1

\* ------------------------------------------------------------ start-up
NoSaves == [incs |-> 0, writes |-> 0]
NoEntry == [records |-> <<>>, candidate |-> <<>>, preview_candidate |-> <<>>,
            revision |-> 0, output_pk3 |-> <<>>, finalize_summary |-> NoSummary,
            since_finalize |-> "none"]
\* the loop has not started: no item taken, none measured, none sent to the upscaler
NoPrep == [cursor |-> 0, width |-> 0, height |-> 0, sent |-> {}, failed |-> {}]
EmptyTree == <<>>
\* no file is at the codec, no preset list is being built, no server is up
NoTga == [stage |-> "none"]
NoBuilt == [stage |-> "none"]
NoHttp == [stage |-> "none"]

\* the manifest an earlier run left: it covers the identities of this run and one
\* that is gone, with the second preset selected, odd identities accepted and even
\* ones rejected
PriorRecords ==
    [k \in Items \cup {GoneItem} |->
        [status |-> IF k % 2 = 1 THEN REVIEW_STATUS_ACCEPTED ELSE REVIEW_STATUS_REJECTED,
         selected_preset |-> preset_order[2],
         last_error |-> NoError]]
PriorManifests ==
    {NoManifest} \cup
    {manifest_payload(PriorRecords, r, FALSE, NoSummary) : r \in 1..MaxRevision}

\* ReviewSession.__init__: self.revision = 0
InitialRevision == 0

\* a final_package tree left in the work directory by an earlier run
StaleTree == [k \in {1, GoneItem} |-> SourceBytes(k)]

Init ==
    /\ phase = "boot"
    /\ records = <<>>
    /\ revision = InitialRevision
    /\ finalized = FALSE
    /\ finalize_summary = NoSummary
    /\ lock = FALSE
    /\ manifest \in PriorManifests
    /\ original = [i \in Items |-> Absent]
    /\ candidate = [i \in Items |-> Absent]
    /\ preview_original = [i \in Items |-> Absent]
    /\ preview_candidate = [i \in Items |-> Absent]
    /\ final_package = StaleTree
    /\ output_pk3 = EmptyTree
    /\ pc = [t \in Threads |-> "idle"]
    /\ op = [t \in Threads |-> "none"]
    /\ arg_rel = [t \in Threads |-> GoneItem]
    /\ arg_val = [t \in Threads |-> "none"]
    /\ previous_status = [t \in Threads |-> "none"]
    /\ exc = [t \in Threads |-> NoError]
    /\ copied = [t \in Threads |-> 0]
    /\ payload = [t \in Threads |-> NoPayload]
    /\ saves = [t \in Threads |-> NoSaves]
    /\ entry = NoEntry
    /\ since_finalize = "none"
    /\ prep = NoPrep
    /\ tga = NoTga
    /\ built = NoBuilt
    /\ http = NoHttp

\* load_previous_decisions: rel_path -> manifest entry ({} without a manifest)
load_previous_decisions(m) ==
    IF m.version # 1 THEN <<>>
    ELSE LET imgs == m.images
             keys == {imgs[n].rel_path : n \in DOMAIN imgs}
         IN [k \in keys |->
                LET last == CHOOSE n \in DOMAIN imgs :
                                /\ imgs[n].rel_path = k
                                /\ \A n2 \in DOMAIN imgs : imgs[n2].rel_path = k => n2 <= n
                IN imgs[last]]

\* prepare_review_records for one identity; outcome is what the size check and
\* the pipeline did: "skipped" (larger than max_dimension), "upscaled", "failed"
PreparedPresetLast(previous, i) ==
    IF i \in DOMAIN previous /\ previous[i].selected_preset \in PresetNames
    THEN previous[i].selected_preset ELSE preset_order[Len(preset_order)]
PreparedPreset(previous, i) ==
    IF i \in DOMAIN previous /\ previous[i].selected_preset \in PresetNames
    THEN previous[i].selected_preset ELSE preset_order[1]

PreparedStatusDefault(previous, i) == REVIEW_STATUS_ACCEPTED
PreparedStatusUnchecked(previous, i) ==
    IF i \in DOMAIN previous THEN previous[i].status ELSE REVIEW_STATUS_ACCEPTED
PreparedStatus(previous, i) ==
    IF i \in DOMAIN previous /\ previous[i].status \in ValidStatuses
    THEN previous[i].status ELSE REVIEW_STATUS_ACCEPTED

PreparedRecordKeepsStatus(previous, i, outcome) ==
    [status |-> PreparedStatus(previous, i),
     selected_preset |-> PreparedPreset(previous, i),
     last_error |-> IF outcome = "failed" THEN ErrUpscale ELSE NoError]
PreparedRecord(previous, i, outcome) ==
    [status |-> IF outcome = "failed" THEN REVIEW_STATUS_REJECTED
                ELSE PreparedStatus(previous, i),
     selected_preset |-> PreparedPreset(previous, i),
     last_error |-> IF outcome = "failed" THEN ErrUpscale ELSE NoError]

PreparedCandidate(previous, i, outcome) ==
    IF outcome = "upscaled" THEN Upscaled(i, PreparedPreset(previous, i))
    ELSE SourceBytes(i)

\* main, review branch: load the prior manifest, prepare the records, build the
\* session and save the first manifest
StartReview ==
    /\ phase = "boot"
    /\ \E outcome \in [Items -> {"skipped", "upscaled", "failed"}] :
         LET previous == load_previous_decisions(manifest)
             recs == [i \in Items |-> PreparedRecord(previous, i, outcome[i])]
             cand == [i \in Items |-> PreparedCandidate(previous, i, outcome[i])]
         IN /\ records' = recs
            /\ original' = [i \in Items |-> SourceBytes(i)]
            /\ candidate' = cand
            /\ preview_original' = [i \in Items |-> BrowserPreview(SourceBytes(i))]
            /\ preview_candidate' = [i \in Items |-> BrowserPreview(cand[i])]
            /\ revision' = NextRevision(InitialRevision)
            /\ manifest' = manifest_payload(recs, NextRevision(InitialRevision),
                                            FALSE, NoSummary)
    /\ finalized' = FALSE
    /\ finalize_summary' = NoSummary
    /\ phase' = "serving"
    /\ UNCHANGED <<tga, built, http, prep, since_finalize, lock, final_package, output_pk3, threadVars, entry>>

\* ------------------------------------------------------ request threads
\* A request thread is idle, inside the `with self.lock` block of the session
\* method its request calls, or back in the handler with the call's outcome
\* ("returned").  A thread that reaches the with statement while the lock is held
\* waits there: it enters the block in a later step, when the lock is free.
MutatingOps == {"decide", "rerun", "finalize"}
Operations == MutatingOps \cup {"state"}

\* the arguments a request can carry into the block
RequestRels(operation) ==
    IF operation \in {"decide", "rerun"} THEN Items \cup {GoneItem} ELSE {GoneItem}
RequestVals(operation) ==
    IF operation = "decide" THEN ValidStatuses
    ELSE IF operation = "rerun" THEN RequestPresets
    ELSE {"none"}

\* the revision is kept within the bound of the model
MayMutate == revision < MaxRevision

InCriticalSection(t) ==
    pc[t] \in {"d_body", "r_check", "r_upscale", "r_preview", "r_commit", "r_except",
               "f_clear", "f_copy", "f_package", "s_read",
               "save_inc", "save_write", "unlock"}

\* set_decision with a status that is neither accepted nor rejected raises before
\* the with statement
CallInvalidDecide(t) ==
    /\ phase = "serving"
    /\ pc[t] = "idle"
    /\ \E status \in RequestStatuses \ ValidStatuses :
         pc' = [pc EXCEPT ![t] = "returned"]
    /\ UNCHANGED <<tga, built, http, prep, since_finalize, phase, sessionVars, lock, fileVars, op, arg_rel, arg_val,
                   previous_status, exc, copied, payload, saves, entry>>

\* a request calls api_state, set_decision (with a valid status), rerun_one or
\* finalize_package, and the call enters its with block
LockFreeUnchecked == TRUE
LockFree == ~lock

EnterFinalizeUnlocked(t, operation, rel, val) ==
    /\ phase = "serving"
    /\ pc[t] = "idle"
    /\ operation # "finalize" => LockFree
    /\ lock' = IF operation = "finalize" THEN lock ELSE TRUE
    /\ op' = [op EXCEPT ![t] = operation]
    /\ arg_rel' = [arg_rel EXCEPT ![t] = rel]
    /\ arg_val' = [arg_val EXCEPT ![t] = val]
    /\ pc' = [pc EXCEPT ![t] =
                IF operation = "decide" THEN "d_body"
                ELSE IF operation = "rerun" THEN "r_check"
                ELSE IF operation = "finalize" THEN "f_clear"
                ELSE "s_read"]
    /\ entry' = [records |-> records, candidate |-> candidate,
                 preview_candidate |-> preview_candidate, revision |-> revision,
                 output_pk3 |-> output_pk3, finalize_summary |-> finalize_summary,
                 since_finalize |-> since_finalize]
    /\ UNCHANGED <<tga, built, http, prep, since_finalize, phase, sessionVars, fileVars, previous_status, exc, copied,
                   payload, saves>>
Enter(t, operation, rel, val) ==
    /\ phase = "serving"
    /\ pc[t] = "idle"
    /\ LockFree
    /\ lock' = TRUE
    /\ op' = [op EXCEPT ![t] = operation]
    /\ arg_rel' = [arg_rel EXCEPT ![t] = rel]
    /\ arg_val' = [arg_val EXCEPT ![t] = val]
    /\ pc' = [pc EXCEPT ![t] =
                IF operation = "decide" THEN "d_body"
                ELSE IF operation = "rerun" THEN "r_check"
                ELSE IF operation = "finalize" THEN "f_clear"
                ELSE "s_read"]
    /\ entry' = [records |-> records, candidate |-> candidate,
                 preview_candidate |-> preview_candidate, revision |-> revision,
                 output_pk3 |-> output_pk3, finalize_summary |-> finalize_summary,
                 since_finalize |-> since_finalize]
    /\ UNCHANGED <<tga, built, http, prep, since_finalize, phase, sessionVars, fileVars, previous_status, exc, copied,
                   payload, saves>>

Acquire(t, operation, rel, val) ==
    /\ operation \in MutatingOps => MayMutate
    /\ Enter(t, operation, rel, val)

\* an UpscaleError raised at the head of the with block: control leaves the block
RejectedAfterSave(t, msg) ==
    /\ pc' = [pc EXCEPT ![t] = "unlock"]
    /\ exc' = [exc EXCEPT ![t] = msg]
    /\ revision' = NextRevision(revision)
    /\ manifest' = manifest_payload(records, NextRevision(revision), finalized,
                                    finalize_summary)
    /\ UNCHANGED <<tga, built, http, prep, since_finalize, phase, records, finalized, finalize_summary, lock, original,
                   candidate, preview_original, preview_candidate, final_package,
                   output_pk3, op, arg_rel, arg_val, previous_status, copied,
                   payload, saves, entry>>
Rejected(t, msg) ==
    /\ pc' = [pc EXCEPT ![t] = "unlock"]
    /\ exc' = [exc EXCEPT ![t] = msg]
    /\ UNCHANGED <<tga, built, http, prep, since_finalize, phase, sessionVars, lock, fileVars, op, arg_rel, arg_val,
                   previous_status, copied, payload, saves, entry>>

\* save_manifest, first statement: self.revision += 1
SaveInc(t) ==
    /\ pc[t] = "save_inc"
    /\ revision' = NextRevision(revision)
    /\ saves' = [saves EXCEPT ![t].incs = @ + 1]
    /\ pc' = [pc EXCEPT ![t] = "save_write"]
    /\ UNCHANGED <<tga, built, http, prep, since_finalize, phase, records, finalized, finalize_summary, lock,
                   fileVars, op, arg_rel, arg_val, previous_status, exc, copied,
                   payload, entry>>

\* save_manifest, rest: serialize manifest_payload() and rewrite the file
SaveWrite(t) ==
    /\ pc[t] = "save_write"
    /\ manifest' = manifest_payload(records, revision, finalized, finalize_summary)
    /\ saves' = [saves EXCEPT ![t].writes = @ + 1]
    /\ pc' = [pc EXCEPT ![t] = "unlock"]
    /\ UNCHANGED <<tga, built, http, prep, since_finalize, phase, sessionVars, lock, original, candidate,
                   preview_original, preview_candidate, final_package, output_pk3,
                   op, arg_rel, arg_val, previous_status, exc, copied, payload, entry>>

\* leaving the with block releases the lock; the call returns its value, or raises
\* exc[t] when an error is pending; the call's locals go out of scope
UnlockUnlessRaised(t) ==
    /\ pc[t] = "unlock"
    /\ lock' = (exc[t] # NoError)
    /\ entry' = NoEntry
    /\ pc' = [pc EXCEPT ![t] = "returned"]
    /\ op' = [op EXCEPT ![t] = "none"]
    /\ arg_rel' = [arg_rel EXCEPT ![t] = GoneItem]
    /\ arg_val' = [arg_val EXCEPT ![t] = "none"]
    /\ previous_status' = [previous_status EXCEPT ![t] = "none"]
    /\ copied' = [copied EXCEPT ![t] = 0]
    /\ payload' = [payload EXCEPT ![t] = NoPayload]
    /\ saves' = [saves EXCEPT ![t] = NoSaves]
    /\ exc' = [exc EXCEPT ![t] = NoError]
    /\ UNCHANGED <<tga, built, http, prep, since_finalize, phase, sessionVars, fileVars>>
Unlock(t) ==
    /\ pc[t] = "unlock"
    /\ lock' = FALSE
    /\ entry' = NoEntry
    /\ pc' = [pc EXCEPT ![t] = "returned"]
    /\ op' = [op EXCEPT ![t] = "none"]
    /\ arg_rel' = [arg_rel EXCEPT ![t] = GoneItem]
    /\ arg_val' = [arg_val EXCEPT ![t] = "none"]
    /\ previous_status' = [previous_status EXCEPT ![t] = "none"]
    /\ copied' = [copied EXCEPT ![t] = 0]
    /\ payload' = [payload EXCEPT ![t] = NoPayload]
    /\ saves' = [saves EXCEPT ![t] = NoSaves]
    /\ exc' = [exc EXCEPT ![t] = NoError]
    /\ UNCHANGED <<tga, built, http, prep, since_finalize, phase, sessionVars, fileVars>>

\* the handler sends the response (200, or 400 with the error) and the thread ends
Respond(t) ==
    /\ pc[t] = "returned"
    /\ pc' = [pc EXCEPT ![t] = "idle"]
    /\ UNCHANGED <<tga, built, http, prep, since_finalize, phase, sessionVars, lock, fileVars, op, arg_rel, arg_val,
                   previous_status, exc, copied, payload, saves, entry>>

\* ---- api_state
ApiStateSaves(t) ==
    /\ pc[t] = "s_read"
    /\ payload' = [payload EXCEPT ![t] =
                     manifest_payload(records, revision, finalized, finalize_summary)]
    /\ pc' = [pc EXCEPT ![t] = "save_inc"]
    /\ UNCHANGED <<tga, built, http, prep, since_finalize, phase, sessionVars, lock, fileVars, op, arg_rel, arg_val,
                   previous_status, exc, copied, saves, entry>>
ApiState(t) ==
    /\ pc[t] = "s_read"
    /\ payload' = [payload EXCEPT ![t] =
                     manifest_payload(records, revision, finalized, finalize_summary)]
    /\ pc' = [pc EXCEPT ![t] = "unlock"]
    /\ UNCHANGED <<tga, built, http, prep, since_finalize, phase, sessionVars, lock, fileVars, op, arg_rel, arg_val,
                   previous_status, exc, copied, saves, entry>>

\* a decide or a rerun takes effect: a package made earlier is no longer fresh
Touched(h) == IF h = "none" THEN "none" ELSE "dirty"

\* ---- set_decision
\* record.status = status
DecideRecordClearsError(rec, status) ==
    [rec EXCEPT !.status = status, !.last_error = NoError]
DecideRecord(rec, status) == [rec EXCEPT !.status = status]

SetDecisionReopens(t) ==
    /\ pc[t] = "d_body"
    /\ IF arg_rel[t] \notin DOMAIN records
       THEN Rejected(t, ErrUnknownRel)
       ELSE /\ records' = [records EXCEPT ![arg_rel[t]] = DecideRecord(@, arg_val[t])]
            /\ finalized' = FALSE
            /\ finalize_summary' = NoSummary
            /\ pc' = [pc EXCEPT ![t] = "save_inc"]
            /\ since_finalize' = Touched(since_finalize)
            /\ UNCHANGED <<tga, built, http, prep, phase, revision, lock,
                           fileVars, op, arg_rel, arg_val, previous_status, exc,
                           copied, payload, saves, entry>>
SetDecision(t) ==
    /\ pc[t] = "d_body"
    /\ IF arg_rel[t] \notin DOMAIN records
       THEN Rejected(t, ErrUnknownRel)
       ELSE /\ records' = [records EXCEPT ![arg_rel[t]] = DecideRecord(@, arg_val[t])]
            /\ pc' = [pc EXCEPT ![t] = "save_inc"]
            /\ since_finalize' = Touched(since_finalize)
            /\ UNCHANGED <<tga, built, http, prep, phase, revision, finalized, finalize_summary, lock,
                           fileVars, op, arg_rel, arg_val, previous_status, exc,
                           copied, payload, saves, entry>>

\* ---- rerun_one
\* the three checks at the head of rerun_one, then previous_status = record.status;
\* have_model reads the models directory at the time of the call
RerunCheck(t) ==
    /\ pc[t] = "r_check"
    /\ \E have_model \in BOOLEAN :
         IF arg_rel[t] \notin DOMAIN records THEN Rejected(t, ErrUnknownRel)
         ELSE IF arg_val[t] \notin PresetNames THEN Rejected(t, ErrUnknownPreset)
         ELSE IF ~have_model THEN Rejected(t, ErrModelMissing)
         ELSE /\ previous_status' = [previous_status EXCEPT ![t] = records[arg_rel[t]].status]
              /\ pc' = [pc EXCEPT ![t] = "r_upscale"]
              /\ UNCHANGED <<tga, built, http, prep, since_finalize, phase, sessionVars, lock, fileVars, op, arg_rel, arg_val,
                             exc, copied, payload, saves, entry>>

\* the steps of upscale_one_image that can raise, for a file of the given suffix:
\* conversion of a .tga input, the upscaler, conversion of the output to .tga or
\* .jpg, normalization of a .tga output
UpscaleSteps(ext) ==
    IF ext = "tga" THEN {"input", "upscale", "output", "normalize"}
    ELSE IF ext = "jpg" THEN {"upscale", "output"}
    ELSE {"upscale"}

\* the UpscaleError of a failing step ("done": no step failed)
StepError(step) ==
    IF step = "done" THEN NoError
    ELSE IF step = "upscale" THEN ErrUpscale
    ELSE IF step = "normalize" THEN ErrNormalize
    ELSE ErrConvert

\* content of staging_dir / rel_path after upscale_one_image: the converter has
\* written the output file when the normalization fails
upscale_one_image_unnormalized(old, i, preset, failed) ==
    IF failed \in {"done", "normalize"} THEN Converted(i, preset) ELSE old
upscale_one_image(old, i, preset, failed) ==
    IF failed = "done" THEN Upscaled(i, preset)
    ELSE IF failed = "normalize" THEN Converted(i, preset)
    ELSE old

RerunUpscaleEveryItem(t) ==
    /\ pc[t] = "r_upscale"
    /\ \E failed \in UpscaleSteps(Ext(arg_rel[t])) \cup {"done"} :
         /\ candidate' = [k \in DOMAIN candidate |->
                            upscale_one_image(candidate[k], k, arg_val[t], failed)]
         /\ exc' = [exc EXCEPT ![t] = StepError(failed)]
         /\ pc' = [pc EXCEPT ![t] = IF failed = "done" THEN "r_preview" ELSE "r_except"]
    /\ since_finalize' = Touched(since_finalize)
    /\ UNCHANGED <<tga, built, http, prep, phase, sessionVars, lock, manifest, original, preview_original,
                   preview_candidate, final_package, output_pk3, op, arg_rel, arg_val,
                   previous_status, copied, payload, saves, entry>>
RerunUpscale(t) ==
    /\ pc[t] = "r_upscale"
    /\ \E failed \in UpscaleSteps(Ext(arg_rel[t])) \cup {"done"} :
         /\ candidate' = [candidate EXCEPT ![arg_rel[t]] =
                            upscale_one_image(@, arg_rel[t], arg_val[t], failed)]
         /\ exc' = [exc EXCEPT ![t] = StepError(failed)]
         /\ pc' = [pc EXCEPT ![t] = IF failed = "done" THEN "r_preview" ELSE "r_except"]
    /\ since_finalize' = Touched(since_finalize)
    /\ UNCHANGED <<tga, built, http, prep, phase, sessionVars, lock, manifest, original, preview_original,
                   preview_candidate, final_package, output_pk3, op, arg_rel, arg_val,
                   previous_status, copied, payload, saves, entry>>

\* the ways make_browser_preview can end for a source of the given suffix
PreviewOutcomes(ext) == IF ext = "png" THEN {NoError} ELSE {NoError, ErrConvert}

make_browser_preview(old, source, outcome) ==
    IF outcome = NoError THEN BrowserPreview(source) ELSE old

RerunPreview(t) ==
    /\ pc[t] = "r_preview"
    /\ \E outcome \in PreviewOutcomes(Ext(arg_rel[t])) :
         /\ preview_candidate' = [preview_candidate EXCEPT ![arg_rel[t]] =
                                    make_browser_preview(@, candidate[arg_rel[t]], outcome)]
         /\ exc' = [exc EXCEPT ![t] = outcome]
         /\ pc' = [pc EXCEPT ![t] = IF outcome = NoError THEN "r_commit" ELSE "r_except"]
    /\ UNCHANGED <<tga, built, http, prep, since_finalize, phase, sessionVars, lock, manifest, original, candidate,
                   preview_original, final_package, output_pk3, op, arg_rel, arg_val,
                   previous_status, copied, payload, saves, entry>>

\* the three assignments that end the try block
RerunCommitKeepsError(rec, preset) ==
    [rec EXCEPT !.selected_preset = preset, !.status = REVIEW_STATUS_ACCEPTED]
RerunCommitRecord(rec, preset) ==
    [rec EXCEPT !.selected_preset = preset, !.status = REVIEW_STATUS_ACCEPTED,
                !.last_error = NoError]

RerunCommit(t) ==
    /\ pc[t] = "r_commit"
    /\ records' = [records EXCEPT ![arg_rel[t]] = RerunCommitRecord(@, arg_val[t])]
    /\ pc' = [pc EXCEPT ![t] = "save_inc"]
    /\ UNCHANGED <<tga, built, http, prep, since_finalize, phase, revision, finalized, finalize_summary, lock, fileVars, op,
                   arg_rel, arg_val, previous_status, exc, copied, payload,
                   saves, entry>>

\* the except UpscaleError block, up to its save_manifest
RerunExceptRejects(rec, previous, message) ==
    [rec EXCEPT !.status = REVIEW_STATUS_REJECTED, !.last_error = message]
RerunExceptRecord(rec, previous, message) ==
    [rec EXCEPT !.status = previous, !.last_error = message]

RerunExceptNoSave(t) ==
    /\ pc[t] = "r_except"
    /\ records' = [records EXCEPT ![arg_rel[t]] =
                     RerunExceptRecord(@, previous_status[t], exc[t])]
    /\ pc' = [pc EXCEPT ![t] = "unlock"]
    /\ UNCHANGED <<tga, built, http, prep, since_finalize, phase, revision, finalized, finalize_summary, lock, fileVars, op,
                   arg_rel, arg_val, previous_status, exc, copied, payload,
                   saves, entry>>
RerunExcept(t) ==
    /\ pc[t] = "r_except"
    /\ records' = [records EXCEPT ![arg_rel[t]] =
                     RerunExceptRecord(@, previous_status[t], exc[t])]
    /\ pc' = [pc EXCEPT ![t] = "save_inc"]
    /\ UNCHANGED <<tga, built, http, prep, since_finalize, phase, revision, finalized, finalize_summary, lock, fileVars, op,
                   arg_rel, arg_val, previous_status, exc, copied, payload,
                   saves, entry>>

\* ---- finalize_package
\* rmtree of a stale final_package tree, then mkdir
FinalizeClear(t) ==
    /\ pc[t] = "f_clear"
    /\ final_package' = EmptyTree
    /\ copied' = [copied EXCEPT ![t] = 0]
    /\ pc' = [pc EXCEPT ![t] = "f_copy"]
    /\ UNCHANGED <<tga, built, http, prep, since_finalize, phase, sessionVars, lock, manifest, original, candidate,
                   preview_original, preview_candidate, output_pk3, op, arg_rel,
                   arg_val, previous_status, exc, payload, saves, entry>>

\* the artifact finalize_package copies for a record
FinalizeSelectCandidate(rec, cand, orig) == cand
FinalizeSelect(rec, cand, orig) ==
    IF rec.status = REVIEW_STATUS_ACCEPTED THEN cand ELSE orig

WriteFile(tree, path, content) ==
    [k \in DOMAIN tree \cup {path} |-> IF k = path THEN content ELSE tree[k]]

\* one iteration of the loop over sorted(self.records.keys())
FinalizeCopy(t) ==
    /\ pc[t] = "f_copy"
    /\ LET keys == SortedSeq(DOMAIN records)
           rel == keys[copied[t] + 1]
       IN /\ final_package' = WriteFile(final_package, rel,
                                  FinalizeSelect(records[rel], candidate[rel], original[rel]))
          /\ copied' = [copied EXCEPT ![t] = @ + 1]
          /\ pc' = [pc EXCEPT ![t] = IF copied[t] + 1 < Len(keys) THEN "f_copy"
                                     ELSE "f_package"]
    /\ UNCHANGED <<tga, built, http, prep, since_finalize, phase, sessionVars, lock, manifest, original, candidate,
                   preview_original, preview_candidate, output_pk3, op, arg_rel,
                   arg_val, previous_status, exc, payload, saves, entry>>

\* package_pk3: the archive gets every file of the tree
package_pk3(tree) == tree

\* the finalize summary: the files copied by this call and the current counts
FinalizeSummaryAccumulates(n, recs, old) ==
    [packaged_files |-> n + (IF old = NoSummary THEN 0 ELSE old.packaged_files),
     summary |-> summary(recs)]
FinalizeSummary(n, recs, old) == [packaged_files |-> n, summary |-> summary(recs)]

\* package_pk3, then finalized = True and the finalize summary
FinalizePackage(t) ==
    /\ pc[t] = "f_package"
    /\ output_pk3' = package_pk3(final_package)
    /\ finalized' = TRUE
    /\ finalize_summary' = FinalizeSummary(copied[t], records, finalize_summary)
    /\ pc' = [pc EXCEPT ![t] = "save_inc"]
    /\ since_finalize' = "clean"
    /\ UNCHANGED <<tga, built, http, prep, phase, records, revision, lock, manifest, original, candidate,
                   preview_original, preview_candidate, final_package, op, arg_rel,
                   arg_val, previous_status, exc, copied, payload, saves, entry>>

Next ==
    \/ StartReview
    \/ \E t \in Threads :
         \/ CallInvalidDecide(t)
         \/ \E operation \in Operations :
              \E rel \in RequestRels(operation), val \in RequestVals(operation) :
                 Acquire(t, operation, rel, val)
         \/ SaveInc(t) \/ SaveWrite(t) \/ Unlock(t) \/ Respond(t)
         \/ ApiState(t) \/ SetDecision(t)
         \/ RerunCheck(t) \/ RerunUpscale(t) \/ RerunPreview(t)
         \/ RerunCommit(t) \/ RerunExcept(t)
         \/ FinalizeClear(t) \/ FinalizeCopy(t) \/ FinalizePackage(t)

Spec == Init /\ [][Next]_vars

\* ------------------------------------------------- one client at a time
\* The same session driven by a single client that waits for each response before
\* its next request: the calls run one after the other, to a greater depth.
Client == 1

AcquireAlone(operation, rel, val) ==
    /\ operation \in MutatingOps => revision < MaxSeqRevision
    /\ Enter(Client, operation, rel, val)

NextSeq ==
    \/ StartReview
    \/ \E operation \in Operations :
         \E rel \in RequestRels(operation), val \in RequestVals(operation) :
            AcquireAlone(operation, rel, val)
    \/ SaveInc(Client) \/ SaveWrite(Client) \/ Unlock(Client) \/ Respond(Client)
    \/ ApiState(Client) \/ SetDecision(Client)
    \/ RerunCheck(Client) \/ RerunUpscale(Client) \/ RerunPreview(Client)
    \/ RerunCommit(Client) \/ RerunExcept(Client)
    \/ FinalizeClear(Client) \/ FinalizeCopy(Client) \/ FinalizePackage(Client)

SpecSeq == Init /\ [][NextSeq]_vars

\* ------------------------------------------------------ the initial pass
\* The loop over the discovered images, one iteration per step, in review mode
\* (prepare_review_records, then the session and its first save) and in batch mode
\* (run_non_review_pipeline).  prep.cursor is the number of completed iterations,
\* prep.width and prep.height are the dimensions read last, prep.sent holds the
\* images passed to the upscaler and prep.failed those whose pipeline run raised.
\* In batch mode `original` is the raw directory and `candidate` the staging one.
Sizes == {MaxDimension - 1, MaxDimension, MaxDimension + 1}

\* width > max_dimension or height > max_dimension
SkippedBySizeInclusive(w, h) == w >= MaxDimension \/ h >= MaxDimension
SkippedBySize(w, h) == w > MaxDimension \/ h > MaxDimension

\* what the size check and the pipeline run make of an image
PassOutcome(w, h, pipeline_ok) ==
    IF SkippedBySize(w, h) THEN "skipped"
    ELSE IF pipeline_ok THEN "upscaled" ELSE "failed"

PassProgress(i, w, h, outcome) ==
    [cursor |-> i, width |-> w, height |-> h,
     sent |-> IF outcome = "skipped" THEN prep.sent ELSE prep.sent \cup {i},
     failed |-> IF outcome = "failed" THEN prep.failed \cup {i} ELSE prep.failed]

\* manifests an earlier review run can have left: any subset of the identities of
\* this run and one that is gone, with one status and one preset name, which may
\* be a preset that is no longer configured
ResumeRecords ==
    {[k \in S \cup {GoneItem} |->
        [status |-> st, selected_preset |-> p, last_error |-> NoError]] :
        S \in SUBSET Items, st \in ValidStatuses, p \in RequestPresets}
ResumeManifests ==
    {NoManifest} \cup
    {manifest_payload(recs, NextRevision(InitialRevision), FALSE, NoSummary) :
        recs \in ResumeRecords}

InitPass ==
    /\ \/ phase = "boot" /\ manifest \in ResumeManifests
       \/ phase = "batch" /\ manifest = NoManifest
    /\ records = <<>>
    /\ revision = InitialRevision
    /\ finalized = FALSE
    /\ finalize_summary = NoSummary
    /\ lock = FALSE
    /\ original = [i \in Items |-> Absent]
    /\ candidate = [i \in Items |-> Absent]
    /\ preview_original = [i \in Items |-> Absent]
    /\ preview_candidate = [i \in Items |-> Absent]
    /\ final_package = EmptyTree
    /\ output_pk3 = EmptyTree
    /\ pc = [t \in Threads |-> "idle"]
    /\ op = [t \in Threads |-> "none"]
    /\ arg_rel = [t \in Threads |-> GoneItem]
    /\ arg_val = [t \in Threads |-> "none"]
    /\ previous_status = [t \in Threads |-> "none"]
    /\ exc = [t \in Threads |-> NoError]
    /\ copied = [t \in Threads |-> 0]
    /\ payload = [t \in Threads |-> NoPayload]
    /\ saves = [t \in Threads |-> NoSaves]
    /\ entry = NoEntry
    /\ since_finalize = "none"
    /\ prep = NoPrep
    /\ tga = NoTga
    /\ built = NoBuilt
    /\ http = NoHttp

\* one iteration of the loop of prepare_review_records that reaches its end: the
\* original is written and measured, the candidate is made (a copy when the image
\* is skipped or its pipeline run raised), both previews are made, the record is
\* stored
PrepareItem ==
    /\ phase = "boot"
    /\ prep.cursor < NumItems
    /\ LET i == prep.cursor + 1
           previous == load_previous_decisions(manifest)
       IN \E w \in Sizes, h \in Sizes, pipeline_ok \in BOOLEAN :
            LET outcome == PassOutcome(w, h, pipeline_ok)
                cand == PreparedCandidate(previous, i, outcome)
            IN /\ original' = [original EXCEPT ![i] = SourceBytes(i)]
               /\ candidate' = [candidate EXCEPT ![i] = cand]
               /\ preview_original' =
                      [preview_original EXCEPT ![i] = BrowserPreview(SourceBytes(i))]
               /\ preview_candidate' =
                      [preview_candidate EXCEPT ![i] = BrowserPreview(cand)]
               /\ records' = [k \in DOMAIN records \cup {i} |->
                                IF k = i THEN PreparedRecord(previous, i, outcome)
                                ELSE records[k]]
               /\ prep' = PassProgress(i, w, h, outcome)
    /\ UNCHANGED <<tga, built, http, phase, revision, finalized, finalize_summary, lock, manifest,
                   final_package, output_pk3, threadVars, entry, since_finalize>>

\* the statements of the loop body that are outside its try block and can raise:
\* read_image_dimensions and the two make_browser_preview calls (a .png is copied,
\* any other file goes through the converter)
RaisingSteps(i) ==
    IF Ext(i) = "png" THEN {"dimensions"}
    ELSE {"dimensions", "preview_original", "preview_candidate"}

\* an iteration of prepare_review_records that raises: the UpscaleError leaves the
\* loop, prepare_review_records and main; the files written so far stay
PrepareItemRaises ==
    /\ phase = "boot"
    /\ prep.cursor < NumItems
    /\ LET i == prep.cursor + 1
           previous == load_previous_decisions(manifest)
       IN \E step \in RaisingSteps(i), w \in Sizes, h \in Sizes, pipeline_ok \in BOOLEAN :
            LET outcome == PassOutcome(w, h, pipeline_ok)
                cand == PreparedCandidate(previous, i, outcome)
            IN /\ original' = [original EXCEPT ![i] = SourceBytes(i)]
               /\ candidate' = IF step = "dimensions" THEN candidate
                                ELSE [candidate EXCEPT ![i] = cand]
               /\ preview_original' =
                      IF step = "preview_candidate"
                      THEN [preview_original EXCEPT ![i] = BrowserPreview(SourceBytes(i))]
                      ELSE preview_original
               /\ prep' = IF step = "dimensions" THEN prep
                           ELSE [PassProgress(i, w, h, outcome) EXCEPT !.cursor = prep.cursor]
    /\ phase' = "aborted"
    /\ UNCHANGED <<tga, built, http, records, revision, finalized, finalize_summary, lock, manifest,
                   preview_candidate, final_package, output_pk3, threadVars, entry,
                   since_finalize>>

\* main after prepare_review_records returned: the session is built from the
\* records and saves its first manifest
PrepareDone ==
    /\ phase = "boot"
    /\ prep.cursor = NumItems
    /\ revision' = NextRevision(InitialRevision)
    /\ manifest' = manifest_payload(records, NextRevision(InitialRevision), FALSE, NoSummary)
    /\ phase' = "serving"
    /\ UNCHANGED <<tga, built, http, records, finalized, finalize_summary, lock, original, candidate,
                   preview_original, preview_candidate, final_package, output_pk3,
                   threadVars, entry, since_finalize, prep>>

\* one iteration of the loop of run_non_review_pipeline: the raw file is written
\* and measured; the staging file is a copy when the image is skipped or its
\* pipeline run raised, the upscaler's output otherwise
BatchItem ==
    /\ phase = "batch"
    /\ prep.cursor < NumItems
    /\ LET i == prep.cursor + 1
       IN \E w \in Sizes, h \in Sizes, pipeline_ok \in BOOLEAN :
            LET outcome == PassOutcome(w, h, pipeline_ok)
            IN /\ original' = [original EXCEPT ![i] = SourceBytes(i)]
               /\ candidate' = [candidate EXCEPT ![i] =
                                  IF outcome = "upscaled" THEN Upscaled(i, preset_order[1])
                                  ELSE SourceBytes(i)]
               /\ prep' = PassProgress(i, w, h, outcome)
    /\ UNCHANGED <<tga, built, http, phase, sessionVars, lock, manifest, preview_original,
                   preview_candidate, final_package, output_pk3, threadVars, entry,
                   since_finalize>>

\* read_image_dimensions is outside the try block of the batch loop: when it
\* raises, the UpscaleError leaves run_non_review_pipeline and main before
\* package_pk3
BatchItemRaises ==
    /\ phase = "batch"
    /\ prep.cursor < NumItems
    /\ original' = [original EXCEPT ![prep.cursor + 1] = SourceBytes(prep.cursor + 1)]
    /\ phase' = "batch_aborted"
    /\ UNCHANGED <<tga, built, http, sessionVars, lock, manifest, candidate, preview_original,
                   preview_candidate, final_package, output_pk3, threadVars, entry,
                   since_finalize, prep>>

\* the files of the staging directory
StagingTree ==
    [k \in {i \in Items : candidate[i] # Absent} |-> candidate[k]]

\* package_pk3(dirs["staging"], output_pk3) after the loop
BatchPackage ==
    /\ phase = "batch"
    /\ prep.cursor = NumItems
    /\ output_pk3' = package_pk3(StagingTree)
    /\ phase' = "batch_done"
    /\ UNCHANGED <<tga, built, http, sessionVars, lock, manifest, original, candidate, preview_original,
                   preview_candidate, final_package, threadVars, entry, since_finalize,
                   prep>>

NextPass ==
    \/ PrepareItem \/ PrepareItemRaises \/ PrepareDone
    \/ BatchItem \/ BatchItemRaises \/ BatchPackage

SpecPass == InitPass /\ [][NextPass]_vars

\* ------------------------------------------------------- the TGA codec
\* A TGA file is the sequence of its bytes: the 18-byte header, the id field, the
\* color map, the pixel data (raw, or run-length encoded as a stream of packets)
\* and whatever follows the pixel data.  normalize_tga_for_ioquake and
\* _decode_tga_pixels are computed on those bytes as the code computes them.
ErrTgaShort == "TGA file too short"
ErrTgaDimensions == "Invalid TGA dimensions"
ErrTgaDepth == "Unsupported TGA depth"
ErrTgaColorMap == "Unsupported TGA color map type"
ErrTgaHeader == "TGA header exceeds file length"
ErrTgaData == "TGA image data is truncated."
ErrTgaStream == "TGA RLE stream is truncated."
ErrTgaPacket == "TGA RLE packet is truncated."
ErrTgaRawPacket == "TGA raw packet is truncated."
ErrTgaMismatch == "Decoded TGA pixel count mismatch."
ErrTgaType == "Unsupported TGA image type for normalization"

\* the python slice s[from:to], for 0 <= from and to <= len(s)
Slice(s, from, to) == SubSeq(s, from + 1, to)

RECURSIVE Flatten(_)
Flatten(ss) == IF ss = <<>> THEN <<>> ELSE Head(ss) \o Flatten(Tail(ss))

\* px * count
RECURSIVE Repeat(_, _)
Repeat(px, count) == IF count = 0 THEN <<>> ELSE px \o Repeat(px, count - 1)

TgaFailure(message) == [error |-> message, pixels |-> <<>>, consumed |-> 0]

\* the end of the run-length branch: the check of len(out) against target, then
\* return bytes(out), pos
DecodedUnchecked(out, pos, target) ==
    [error |-> NoError, pixels |-> out, consumed |-> pos]
Decoded(out, pos, target) ==
    IF Len(out) # target THEN TgaFailure(ErrTgaMismatch)
    ELSE [error |-> NoError, pixels |-> out, consumed |-> pos]

\* the while loop of the run-length branch, from position pos with out decoded
RECURSIVE RleLoop(_, _, _, _, _)
RleLoop(encoded, pos, out, pixel_size, target) ==
    IF Len(out) >= target THEN Decoded(out, pos, target)
    ELSE IF pos >= Len(encoded) THEN TgaFailure(ErrTgaStream)
    ELSE LET packet == encoded[pos + 1]
             count == (packet % 128) + 1
             body == pos + 1
         IN IF packet >= 128
            THEN LET end == body + pixel_size
                 IN IF end > Len(encoded) THEN TgaFailure(ErrTgaPacket)
                    ELSE RleLoop(encoded, end,
                                 out \o Repeat(Slice(encoded, body, end), count),
                                 pixel_size, target)
            ELSE LET end == body + count * pixel_size
                 IN IF end > Len(encoded) THEN TgaFailure(ErrTgaRawPacket)
                    ELSE RleLoop(encoded, end, out \o Slice(encoded, body, end),
                                 pixel_size, target)

_decode_tga_pixels(image_type, encoded, pixel_size, pixel_count) ==
    IF image_type = 2
    THEN LET required == pixel_count * pixel_size
         IN IF Len(encoded) < required THEN TgaFailure(ErrTgaData)
            ELSE [error |-> NoError, pixels |-> Slice(encoded, 0, required),
                  consumed |-> required]
    ELSE IF image_type = 10
    THEN RleLoop(encoded, 0, <<>>, pixel_size, pixel_count * pixel_size)
    ELSE TgaFailure(ErrTgaType)

\* descriptor & 0x20
TopDownAlways(descriptor) == TRUE
TopDown(descriptor) == (descriptor \div 32) % 2 = 1

\* descriptor & ~0x20
ClearOrigin(descriptor) ==
    IF (descriptor \div 32) % 2 = 1 THEN descriptor - 32 ELSE descriptor

\* the rows of the pixel buffer, joined in reverse order
FlipRowsKeepsOrder(pixels, row_bytes, height) == pixels
FlipRows(pixels, row_bytes, height) ==
    Flatten([i \in 1..height |->
                Slice(pixels, (height - i) * row_bytes, (height - i + 1) * row_bytes)])

\* trailer = encoded[consumed:]
TrailerDropped(encoded, consumed) == <<>>
Trailer(encoded, consumed) == Slice(encoded, consumed, Len(encoded))

\* the file normalize_tga_for_ioquake leaves at the path, and the error it raises
normalize_tga_for_ioquake(raw) ==
    IF Len(raw) < 18 THEN [error |-> ErrTgaShort, file |-> raw]
    ELSE LET id_len == raw[1]
             cmap_type == raw[2]
             image_type == raw[3]
             width == raw[13] + 256 * raw[14]
             height == raw[15] + 256 * raw[16]
             bpp == raw[17]
             descriptor == raw[18]
             cmap_length == raw[6] + 256 * raw[7]
             cmap_entry_size_bits == raw[8]
             cmap_bytes == IF cmap_type = 1
                           THEN cmap_length * ((cmap_entry_size_bits + 7) \div 8)
                           ELSE 0
             start == 18 + id_len + cmap_bytes
             pixel_size == bpp \div 8
             encoded == Slice(raw, start, Len(raw))
             decoded == _decode_tga_pixels(image_type, encoded, pixel_size, width * height)
         IN IF width <= 0 \/ height <= 0 THEN [error |-> ErrTgaDimensions, file |-> raw]
            ELSE IF bpp \notin {24, 32} THEN [error |-> ErrTgaDepth, file |-> raw]
            ELSE IF ~TopDown(descriptor) THEN [error |-> NoError, file |-> raw]
            ELSE IF cmap_type \notin {0, 1} THEN [error |-> ErrTgaColorMap, file |-> raw]
            ELSE IF start > Len(raw) THEN [error |-> ErrTgaHeader, file |-> raw]
            ELSE IF decoded.error # NoError THEN [error |-> decoded.error, file |-> raw]
            ELSE [error |-> NoError,
                  file |-> [Slice(raw, 0, start) EXCEPT ![3] = 2,
                                                        ![18] = ClearOrigin(descriptor)]
                           \o FlipRows(decoded.pixels, width * pixel_size, height)
                           \o Trailer(encoded, decoded.consumed)]

\* ---- the files handed to the codec
\* the header fields the codec reads, at the offsets it reads them
TgaHeader(id_len, cmap_type, image_type, cmap_length, cmap_bits, width, height, bpp, descriptor) ==
    <<id_len, cmap_type, image_type, 0, 0, cmap_length % 256, cmap_length \div 256,
      cmap_bits, 0, 0, 0, 0, width % 256, width \div 256,
      height % 256, height \div 256, bpp, descriptor>>

\* two colours; the bytes of a pixel differ from one another and between colours
Colours == {1, 2}
PixelBytes(colour, pixel_size) == [b \in 1..pixel_size |-> 16 * colour + b]

\* a run-length packet: its header byte (bit 7: repeat packet; low bits: the pixel
\* count minus one) and its pixels, one for a repeat packet; the pixels of a
\* literal packet alternate between the two colours
PacketColours(packet) ==
    [n \in 1..packet.count |->
        IF packet.repeat \/ (n % 2) = 1 THEN packet.colour ELSE 3 - packet.colour]
PacketBytes(packet, pixel_size) ==
    IF packet.repeat
    THEN <<128 + packet.count - 1>> \o PixelBytes(packet.colour, pixel_size)
    ELSE <<packet.count - 1>>
         \o Flatten([n \in 1..packet.count |->
                        PixelBytes(PacketColours(packet)[n], pixel_size)])
\* the pixels a packet stands for
PacketPixels(packet, pixel_size) ==
    Flatten([n \in 1..packet.count |-> PixelBytes(PacketColours(packet)[n], pixel_size)])

\* streams of at most MaxPackets packets; the colour of a packet is given by its
\* position in the stream
Packets ==
    UNION {[1..n -> [repeat : BOOLEAN, count : 1..MaxSide]] : n \in 0..MaxPackets}
StreamPackets(shape) ==
    [n \in 1..Len(shape) |->
        [repeat |-> shape[n].repeat, count |-> shape[n].count, colour |-> 2 - (n % 2)]]

\* id field, color map (one entry of 15 bits: two bytes) and trailing bytes
TgaLayouts ==
    {[id |-> <<>>, cmap_type |-> 0, cmap |-> <<>>, trailer |-> <<>>],
     [id |-> <<73>>, cmap_type |-> 0, cmap |-> <<>>, trailer |-> <<84, 82>>],
     [id |-> <<>>, cmap_type |-> 1, cmap |-> <<5, 6>>, trailer |-> <<84>>],
     [id |-> <<73, 68>>, cmap_type |-> 1, cmap |-> <<5, 6>>, trailer |-> <<>>]}
\* depth and descriptor (bits 0-3: alpha bits, bit 5: top-left origin)
TgaDepths ==
    {[bpp |-> 24, descriptor |-> 0], [bpp |-> 32, descriptor |-> 8],
     [bpp |-> 24, descriptor |-> 32], [bpp |-> 32, descriptor |-> 40]}

\* a file and the parts it was put together from; cut: the last byte of the pixel
\* data is missing (only for a file that ends with its pixel data)
TgaFile(layout, depth, image_type, cmap_type, width, height, data, packets, cut) ==
    [bytes |-> TgaHeader(Len(layout.id), cmap_type, image_type,
                         IF layout.cmap = <<>> THEN 0 ELSE 1,
                         IF layout.cmap = <<>> THEN 0 ELSE 15,
                         width, height, depth.bpp, depth.descriptor)
               \o layout.id \o layout.cmap
               \o (IF cut THEN Slice(data, 0, Len(data) - 1) ELSE data)
               \o layout.trailer,
     made |-> [image_type |-> image_type, width |-> width, height |-> height,
               pixel_size |-> depth.bpp \div 8,
               start |-> 18 + Len(layout.id) + Len(layout.cmap),
               top_down |-> depth.descriptor \in {32, 40},
               packets |-> packets, trailer |-> layout.trailer, cut |-> cut,
               supported |-> /\ depth.bpp \in {24, 32} /\ cmap_type \in {0, 1}
                             /\ image_type \in {2, 10} /\ width > 0 /\ height > 0]]

Cuts(layout) == IF layout.trailer = <<>> THEN BOOLEAN ELSE {FALSE}

\* the images of at most MaxSide by MaxSide pixels, as rows of colours
ColourGrids ==
    UNION {[1..h -> [1..w -> Colours]] : <<w, h>> \in (1..MaxSide) \X (1..MaxSide)}

RawTgaFiles ==
    {TgaFile(layout, depth, 2, layout.cmap_type, Len(colours[1]), Len(colours),
             Flatten([r \in 1..Len(colours) |->
                 Flatten([c \in 1..Len(colours[r]) |->
                     PixelBytes(colours[r][c], depth.bpp \div 8)])]),
             <<>>, cut) :
        <<layout, depth, colours, cut>> \in
            {<<l, d, cs, ct>> \in
                TgaLayouts \X TgaDepths
                \X ColourGrids
                \X BOOLEAN :
                ct \in Cuts(l)}}

RleTgaFiles ==
    {TgaFile(layout, depth, 10, layout.cmap_type, width, height,
             Flatten([n \in 1..Len(shape) |->
                 PacketBytes(StreamPackets(shape)[n], depth.bpp \div 8)]),
             StreamPackets(shape), cut) :
        <<layout, depth, width, height, shape, cut>> \in
            {<<l, d, w, h, sh, ct>> \in
                TgaLayouts \X TgaDepths \X (1..MaxSide) \X (1..MaxSide) \X Packets \X BOOLEAN :
                ct \in Cuts(l) /\ (ct => sh # <<>>)}}

\* files the codec refuses: a depth, a color map type or an image type it does not
\* handle, a zero width, a header cut short, an id field longer than the file
PlainLayout == [id |-> <<>>, cmap_type |-> 0, cmap |-> <<>>, trailer |-> <<>>]
RefusedTgaFiles ==
    LET data(pixel_size) == PixelBytes(1, pixel_size)
    IN UNION {
        {TgaFile(PlainLayout, [bpp |-> 16, descriptor |-> d], 2, 0, 1, 1, data(2), <<>>, FALSE),
         TgaFile(PlainLayout, [bpp |-> 24, descriptor |-> d], 2, 2, 1, 1, data(3), <<>>, FALSE),
         TgaFile(PlainLayout, [bpp |-> 24, descriptor |-> d], 3, 0, 1, 1, data(3), <<>>, FALSE),
         TgaFile(PlainLayout, [bpp |-> 24, descriptor |-> d], 2, 0, 0, 1, <<>>, <<>>, FALSE),
         [TgaFile(PlainLayout, [bpp |-> 24, descriptor |-> d], 2, 0, 1, 1, data(3), <<>>, FALSE)
            EXCEPT !.bytes = Slice(@, 0, 17), !.made.supported = FALSE],
         [TgaFile(PlainLayout, [bpp |-> 24, descriptor |-> d], 2, 0, 1, 1, <<>>, <<>>, FALSE)
            EXCEPT !.bytes[1] = 9, !.made.supported = FALSE]} :
        d \in {0, 32}}

TgaFiles == RawTgaFiles \cup RleTgaFiles \cup RefusedTgaFiles

\* nothing of a review session exists
Unstarted ==
    /\ records = <<>>
    /\ revision = InitialRevision
    /\ finalized = FALSE
    /\ finalize_summary = NoSummary
    /\ lock = FALSE
    /\ original = [i \in Items |-> Absent]
    /\ candidate = [i \in Items |-> Absent]
    /\ preview_original = [i \in Items |-> Absent]
    /\ preview_candidate = [i \in Items |-> Absent]
    /\ final_package = EmptyTree
    /\ output_pk3 = EmptyTree
    /\ pc = [t \in Threads |-> "idle"]
    /\ op = [t \in Threads |-> "none"]
    /\ arg_rel = [t \in Threads |-> GoneItem]
    /\ arg_val = [t \in Threads |-> "none"]
    /\ previous_status = [t \in Threads |-> "none"]
    /\ exc = [t \in Threads |-> NoError]
    /\ copied = [t \in Threads |-> 0]
    /\ payload = [t \in Threads |-> NoPayload]
    /\ saves = [t \in Threads |-> NoSaves]
    /\ entry = NoEntry
    /\ since_finalize = "none"
    /\ prep = NoPrep

InitTga ==
    /\ phase = "codec"
    /\ Unstarted
    /\ manifest = NoManifest
    /\ tga \in {[stage |-> "file", input |-> f.bytes, file |-> f.bytes, made |-> f.made,
                 error |-> NoError, pixels |-> <<>>, consumed |-> 0] : f \in TgaFiles}
    /\ built = NoBuilt
    /\ http = NoHttp

\* convert_image has written a .tga and calls normalize_tga_for_ioquake on it
NormalizeTga ==
    /\ tga.stage = "file"
    /\ LET done == normalize_tga_for_ioquake(tga.file)
       IN tga' = [tga EXCEPT !.stage = "normalized", !.file = done.file,
                             !.error = done.error]
    /\ UNCHANGED <<phase, sessionVars, lock, fileVars, threadVars, entry, since_finalize,
                   prep, built, http>>

\* _decode_tga_pixels on the pixel data of the file (everything after the header,
\* the id field and the color map)
DecodeTga ==
    /\ tga.stage = "file"
    /\ tga.made.start <= Len(tga.file)
    /\ LET decoded == _decode_tga_pixels(tga.made.image_type,
                                         Slice(tga.file, tga.made.start, Len(tga.file)),
                                         tga.made.pixel_size,
                                         tga.made.width * tga.made.height)
       IN tga' = [tga EXCEPT !.stage = "decoded", !.error = decoded.error,
                             !.pixels = decoded.pixels, !.consumed = decoded.consumed]
    /\ UNCHANGED <<phase, sessionVars, lock, fileVars, threadVars, entry, since_finalize,
                   prep, built, http>>

NextTga == NormalizeTga \/ DecodeTga

SpecTga == InitTga /\ [][NextTga]_vars

\* ---------------------------------------------------- the preset list
\* build_rerun_presets: the --rerun-preset arguments (or the three built-in presets
\* when none is given), without later entries of a name already seen, without the
\* presets whose model files are missing.  A preset is its name and its model; the
\* scale is carried along unchanged.
ErrInvalidPreset == "Invalid --rerun-preset"
ErrNoPresets == "No valid rerun presets remain after model filtering"

Models == {"realesrgan-x4plus", "realesrnet-x4plus", "realesrgan-x4plus-anime"}
RerunPreset(name, model) == [name |-> name, model |-> model]

\* the --rerun-preset arguments a run can be given; an argument with an empty name
\* stands for the ones parse_rerun_preset refuses
RequestedPresets ==
    {RerunPreset(name, model) :
        name \in {"default", "fast", ""},
        model \in {"realesrgan-x4plus", "realesrnet-x4plus"}}
RerunPresetArgs == UNION {[1..n -> RequestedPresets] : n \in 0..MaxPresets}

DefaultPresets(model) ==
    <<RerunPreset("default", model),
      RerunPreset("realesrnet", "realesrnet-x4plus"),
      RerunPreset("anime", "realesrgan-x4plus-anime")>>

\* have_model_files: the .param and the .bin of the model are in the models directory
have_model_files_always(available, model) == TRUE
have_model_files(available, model) == model \in available

\* the loop over presets with seen_names
RECURSIVE Deduped(_, _, _, _)
Deduped(presets, n, seen_names, deduped) ==
    IF n > Len(presets) THEN deduped
    ELSE IF presets[n].name \in seen_names
         THEN Deduped(presets, n + 1, seen_names, deduped)
    ELSE Deduped(presets, n + 1, seen_names \cup {presets[n].name},
                 Append(deduped, presets[n]))

build_rerun_presets(rerun_preset, model, available) ==
    IF \E n \in DOMAIN rerun_preset : rerun_preset[n].name = ""
    THEN [error |-> ErrInvalidPreset, presets |-> <<>>]
    ELSE LET presets == IF rerun_preset # <<>> THEN rerun_preset
                        ELSE DefaultPresets(model)
             deduped == Deduped(presets, 1, {}, <<>>)
             Available(preset) == have_model_files(available, preset.model)
             filtered == SelectSeq(deduped, Available)
         IN IF filtered = <<>> THEN [error |-> ErrNoPresets, presets |-> <<>>]
            ELSE [error |-> NoError, presets |-> filtered]

\* main before the preset list is built: the arguments and the models directory
InitPresets ==
    /\ phase = "setup"
    /\ Unstarted
    /\ manifest = NoManifest
    /\ tga = NoTga
    /\ http = NoHttp
    /\ \E rerun_preset \in RerunPresetArgs, model \in Models, available \in SUBSET Models :
         /\ rerun_preset # <<>> => model = "realesrgan-x4plus"
         /\ built = [stage |-> "args", rerun_preset |-> rerun_preset, model |-> model,
                     available |-> available, presets |-> <<>>, error |-> NoError]

\* presets = build_rerun_presets(args, models_dir)
BuildRerunPresets ==
    /\ built.stage = "args"
    /\ LET result == build_rerun_presets(built.rerun_preset, built.model, built.available)
       IN built' = [built EXCEPT !.stage = "built", !.presets = result.presets,
                                 !.error = result.error]
    /\ UNCHANGED <<phase, sessionVars, lock, fileVars, threadVars, entry, since_finalize,
                   prep, tga, http>>

NextPresets == BuildRerunPresets

SpecPresets == InitPresets /\ [][NextPresets]_vars

\* ------------------------------------------------------- GET requests
\* A location of the file system is the sequence of names from its top.  The review
\* root is <work>/review; `secret` is a file of the work directory outside it.  The
\* path of a request is the sequence of its segments as they are sent: a segment may
\* be percent-encoded.  The tree holds the files of the first image, which is what
\* the segments can name.
review_root == <<"work", "review">>
IndexBytes == [item |-> 0, by |-> "index", fmt |-> "html", origin |-> "none"]
OutsideBytes == [item |-> 0, by |-> "outside", fmt |-> "none", origin |-> "none"]
Nowhere == <<"?">>

Dirs ==
    {<<>>, <<"work">>, review_root, review_root \o <<"original">>,
     review_root \o <<"preview">>, review_root \o <<"preview", "original">>}

\* the content of the file at a location (Absent: no file is there)
FileAt(location) ==
    IF location = review_root \o <<"index.html">> THEN IndexBytes
    ELSE IF location = review_root \o <<"original", "1">> THEN original[1]
    ELSE IF location = review_root \o <<"preview", "original", "1">> THEN preview_original[1]
    ELSE IF location = <<"work", "secret">> THEN OutsideBytes
    ELSE Absent

\* a symbolic link somebody may have put into the preview directory, to the work
\* directory
NoLinks == <<>>
PreviewLink == [l \in {review_root \o <<"preview", "link">>} |-> <<"work">>]

Parent(location) ==
    IF location = <<>> THEN location ELSE SubSeq(location, 1, Len(location) - 1)

\* Path.resolve(): ".." and symbolic links are followed from the top; a part that
\* does not exist is kept as it is written
RECURSIVE Resolve(_, _, _)
Resolve(location, segments, links) ==
    IF segments = <<>> THEN location
    ELSE LET step == IF Head(segments) = ".." THEN Parent(location)
                     ELSE Append(location, Head(segments))
             real == IF step \in DOMAIN links THEN links[step] ELSE step
         IN Resolve(real, Tail(segments), links)

\* where the operating system arrives when it opens a path: as Resolve, but
\* nowhere when the path goes through something that is not a directory
RECURSIVE Lookup(_, _, _)
Lookup(location, segments, links) ==
    IF segments = <<>> THEN location
    ELSE IF location \notin Dirs THEN Nowhere
    ELSE LET step == IF Head(segments) = ".." THEN Parent(location)
                     ELSE Append(location, Head(segments))
             real == IF step \in DOMAIN links THEN links[step] ELSE step
         IN Lookup(real, Tail(segments), links)

\* path.resolve().relative_to(root.resolve()) raises no ValueError
IsPrefix(root, location) ==
    Len(root) <= Len(location) /\ SubSeq(location, 1, Len(root)) = root
ensure_inside_root_unresolved(path, root, links) == IsPrefix(root, path)
ensure_inside_root(path, root, links) ==
    IsPrefix(Resolve(<<>>, root, links), Resolve(<<>>, path, links))

\* urllib.parse.unquote on a segment, split at the slashes it uncovers
unquote(segment) ==
    IF segment = "%2e%2e" THEN <<"..">>
    ELSE IF segment = "..%2f.." THEN <<"..", "..">>
    ELSE <<segment>>
Unquoted(path) == Flatten([n \in DOMAIN path |-> unquote(path[n])])

\* _send_file: 404 unless the path is a file, else 200 and its bytes
_send_file(path, links) ==
    LET content == FileAt(Lookup(<<>>, path, links))
    IN IF content = Absent THEN [code |-> 404, body |-> Absent]
       ELSE [code |-> 200, body |-> content]

\* the segments a request can put after /preview/, and the request paths
Segments ==
    {"preview", "original", "1", "..", "%2e%2e", "..%2f..", "secret", "link"}
GetPaths ==
    {<<>>, <<"index.html">>, <<"api", "state">>, <<"original", "1">>}
    \cup {<<"preview">> \o rest :
             rest \in UNION {[1..n -> Segments] : n \in 0..MaxSegments}}

do_GET(path, links) ==
    IF path \in {<<>>, <<"index.html">>}
    THEN _send_file(review_root \o <<"index.html">>, links)
    ELSE IF path = <<"api", "state">>
    THEN [code |-> 200,
          body |-> manifest_payload(records, revision, finalized, finalize_summary)]
    ELSE IF path # <<>> /\ path[1] = "preview"
    THEN LET candidate_path == review_root \o Unquoted(path)
         IN IF ~ensure_inside_root(candidate_path, review_root, links)
            THEN [code |-> 403, body |-> Absent]
            ELSE _send_file(candidate_path, links)
    ELSE [code |-> 404, body |-> Absent]

InitGet ==
    /\ phase = "boot"
    /\ Unstarted
    /\ manifest = NoManifest
    /\ tga = NoTga
    /\ built = NoBuilt
    /\ http = NoHttp

\* a GET request is handled
DoGet ==
    /\ phase = "serving"
    /\ http = NoHttp
    /\ \E path \in GetPaths, links \in {NoLinks, PreviewLink} :
         LET response == do_GET(path, links)
         IN http' = [stage |-> "responded", path |-> path, links |-> links,
                     code |-> response.code, body |-> response.body]
    /\ UNCHANGED <<phase, sessionVars, lock, fileVars, threadVars, entry, since_finalize,
                   prep, tga, built>>

NextGet == StartReview \/ DoGet

SpecGet == InitGet /\ [][NextGet]_vars

\* ------------------------------------------------------ POST requests
\* do_POST as one step per request: the body is read, the session method the path
\* names runs from its with statement to its return or its exception, and the
\* handler sends what its try statement makes of the outcome.  The requests are
\* handled one after the other.
ErrInvalidJson == "Invalid JSON request body"
ErrNotObject == "JSON request body must be an object."
ErrUnexpected == "Unexpected server error"
ErrNotFound == "Not found"
\* exceptions that are not UpscaleError: the body is not UTF-8; a directory or a
\* file of the work directory cannot be created or removed
FaultDecode == "UnicodeDecodeError"
FaultOs == "OSError"
Faults == {FaultDecode, FaultOs}
UpscaleErrors == PipelineErrors \cup RejectionErrors \cup {ErrInvalidJson, ErrNotObject}

\* payload.get("rel_path", "") of a body without the key
NoRel == 0

\* the bodies a request can carry: a JSON object with the two keys its path reads,
\* no body, bytes that are not JSON, a JSON array, bytes that are not UTF-8
RequestBodies(rels, values) ==
    {[kind |-> "object", rel_path |-> rel, value |-> value] :
        rel \in rels, value \in values}
    \cup {[kind |-> kind, rel_path |-> NoRel, value |-> ""] :
             kind \in {"empty", "invalid", "array", "undecodable"}}

_read_json_body(body) ==
    [raised |-> IF body.kind = "undecodable" THEN FaultDecode
                ELSE IF body.kind = "invalid" THEN ErrInvalidJson
                ELSE IF body.kind = "array" THEN ErrNotObject
                ELSE NoError,
     rel_path |-> body.rel_path,
     value |-> body.value]

\* what the try statement of do_POST sends for the outcome of its body
ResponsesUncaught(raised) ==
    IF raised = NoError THEN <<[code |-> 200, error |-> NoError]>>
    ELSE IF raised \in UpscaleErrors THEN <<[code |-> 400, error |-> raised]>>
    ELSE <<>>
Responses(raised) ==
    IF raised = NoError THEN <<[code |-> 200, error |-> NoError]>>
    ELSE IF raised \in UpscaleErrors THEN <<[code |-> 400, error |-> raised]>>
    ELSE <<[code |-> 500, error |-> ErrUnexpected]>>

\* the server after a request: its path, the image it named, the exception its
\* body ended with, the responses sent, and whether the request before this one
\* ended with an exception that is not an UpscaleError
Handled(path, rel, raised, responses) ==
    [http EXCEPT !.path = path, !.rel_path = rel, !.raised = raised,
                 !.responses = responses,
                 !.after_fault = http.raised \in Faults]

\* the server takes requests
Serving == phase = "serving" /\ http.stage = "up" /\ ~http.shutdown /\ ~lock

\* a manifest somebody edited by hand: a status that is neither accepted nor
\* rejected for the first image and for one that is gone
EditedRecords ==
    [k \in Items \cup {GoneItem} |->
        [status |-> IF k \in {1, GoneItem} THEN "maybe"
                    ELSE IF k % 2 = 0 THEN REVIEW_STATUS_REJECTED
                    ELSE REVIEW_STATUS_ACCEPTED,
         selected_preset |-> preset_order[2],
         last_error |-> NoError]]
EditedManifests ==
    {NoManifest, manifest_payload(EditedRecords, NextRevision(InitialRevision), FALSE, NoSummary)}

\* main before the records are prepared; http.previous is what
\* load_previous_decisions returned
InitHttp ==
    /\ phase = "boot"
    /\ Unstarted
    /\ manifest \in EditedManifests
    /\ tga = NoTga
    /\ built = NoBuilt
    /\ http = [stage |-> "up", shutdown |-> FALSE, path |-> "none", rel_path |-> NoRel,
               raised |-> NoError, responses |-> <<>>, after_fault |-> FALSE,
               previous |-> load_previous_decisions(manifest)]

\* POST /api/decision
PostDecision ==
    /\ Serving
    /\ revision < MaxHttpRevision
    /\ \E body \in RequestBodies(Items \cup {GoneItem}, RequestStatuses) :
         LET parsed == _read_json_body(body)
             rel == parsed.rel_path
             status == parsed.value
             raised == IF parsed.raised # NoError THEN parsed.raised
                       ELSE IF status \notin ValidStatuses THEN ErrInvalidStatus
                       ELSE IF rel \notin DOMAIN records THEN ErrUnknownRel
                       ELSE NoError
             recs == IF raised = NoError
                     THEN [records EXCEPT ![rel] = DecideRecord(@, status)]
                     ELSE records
             rev == IF raised = NoError THEN NextRevision(revision) ELSE revision
         IN /\ records' = recs
            /\ revision' = rev
            /\ manifest' = IF raised = NoError
                           THEN manifest_payload(recs, rev, finalized, finalize_summary)
                           ELSE manifest
            /\ since_finalize' = IF raised = NoError THEN Touched(since_finalize)
                                 ELSE since_finalize
            /\ http' = Handled("/api/decision", rel, raised, Responses(raised))
    /\ UNCHANGED <<phase, finalized, finalize_summary, lock, original, candidate,
                   preview_original, preview_candidate, final_package, output_pk3,
                   threadVars, entry, prep, tga, built>>

\* POST /api/rerun; have_model is what have_model_files finds, failed is the step
\* of upscale_one_image that raises ("oserror": its first mkdir raises OSError),
\* preview is how make_browser_preview ends
PostRerun ==
    /\ Serving
    /\ revision < MaxHttpRevision
    /\ \E body \in RequestBodies(Items \cup {GoneItem}, RequestPresets) :
         LET parsed == _read_json_body(body)
             rel == parsed.rel_path
             preset == parsed.value
             refused == IF parsed.raised # NoError THEN parsed.raised
                        ELSE IF rel \notin DOMAIN records THEN ErrUnknownRel
                        ELSE IF preset \notin PresetNames THEN ErrUnknownPreset
                        ELSE NoError
         IN IF refused # NoError
            THEN /\ http' = Handled("/api/rerun", rel, refused, Responses(refused))
                 /\ UNCHANGED <<records, revision, manifest, candidate, preview_candidate,
                                since_finalize>>
            ELSE \E have_model \in BOOLEAN :
                 IF ~have_model
                 THEN /\ http' = Handled("/api/rerun", rel, ErrModelMissing,
                                         Responses(ErrModelMissing))
                      /\ UNCHANGED <<records, revision, manifest, candidate,
                                     preview_candidate, since_finalize>>
                 ELSE \E failed \in UpscaleSteps(Ext(rel)) \cup {"done", "oserror"} :
                      \E preview \in IF failed = "done" THEN PreviewOutcomes(Ext(rel))
                                     ELSE {NoError} :
                        LET raised == IF failed = "oserror" THEN FaultOs
                                      ELSE IF failed # "done" THEN StepError(failed)
                                      ELSE preview
                            status_before == records[rel].status
                            cand == IF failed = "oserror" THEN candidate[rel]
                                    ELSE upscale_one_image(candidate[rel], rel, preset, failed)
                            shown == IF failed = "done"
                                     THEN make_browser_preview(preview_candidate[rel], cand,
                                                               preview)
                                     ELSE preview_candidate[rel]
                            rec == IF raised = NoError
                                   THEN RerunCommitRecord(records[rel], preset)
                                   ELSE IF raised = FaultOs THEN records[rel]
                                   ELSE RerunExceptRecord(records[rel], status_before, raised)
                            recs == [records EXCEPT ![rel] = rec]
                            rev == IF raised = FaultOs THEN revision
                                   ELSE NextRevision(revision)
                        IN /\ records' = recs
                           /\ revision' = rev
                           /\ candidate' = [candidate EXCEPT ![rel] = cand]
                           /\ preview_candidate' = [preview_candidate EXCEPT ![rel] = shown]
                           /\ manifest' = IF raised = FaultOs THEN manifest
                                          ELSE manifest_payload(recs, rev, finalized,
                                                                finalize_summary)
                           /\ since_finalize' = IF raised = FaultOs THEN since_finalize
                                                ELSE Touched(since_finalize)
                           /\ http' = Handled("/api/rerun", rel, raised, Responses(raised))
    /\ UNCHANGED <<phase, finalized, finalize_summary, lock, original, preview_original,
                   final_package, output_pk3, threadVars, entry, prep, tga, built>>

\* POST /api/finalize; fault: the rmtree of the old tree raises OSError
PostFinalize ==
    /\ Serving
    /\ revision < MaxHttpRevision
    /\ \E body \in RequestBodies({NoRel}, {""}), fault \in BOOLEAN :
         LET parsed == _read_json_body(body)
             raised == IF parsed.raised # NoError THEN parsed.raised
                       ELSE IF fault THEN FaultOs
                       ELSE NoError
             tree == [k \in DOMAIN records |->
                         FinalizeSelect(records[k], candidate[k], original[k])]
             result == FinalizeSummary(Cardinality(DOMAIN records), records,
                                       finalize_summary)
         IN IF raised # NoError
            THEN /\ http' = Handled("/api/finalize", NoRel, raised, Responses(raised))
                 /\ UNCHANGED <<revision, finalized, finalize_summary, manifest,
                                final_package, output_pk3, since_finalize>>
            ELSE /\ final_package' = tree
                 /\ output_pk3' = package_pk3(tree)
                 /\ finalized' = TRUE
                 /\ finalize_summary' = result
                 /\ revision' = NextRevision(revision)
                 /\ manifest' = manifest_payload(records, NextRevision(revision), TRUE, result)
                 /\ since_finalize' = "clean"
                 /\ http' = Handled("/api/finalize", NoRel, raised, Responses(raised))
    /\ UNCHANGED <<phase, records, lock, original, candidate, preview_original,
                   preview_candidate, threadVars, entry, prep, tga, built>>

\* POST /api/shutdown: the response, then server.shutdown in a thread of its own
PostShutdown ==
    /\ Serving
    /\ \E body \in RequestBodies({NoRel}, {""}) :
         LET raised == _read_json_body(body).raised
         IN http' = [Handled("/api/shutdown", NoRel, raised, Responses(raised))
                        EXCEPT !.shutdown = (raised = NoError)]
    /\ UNCHANGED <<phase, sessionVars, lock, fileVars, threadVars, entry, since_finalize,
                   prep, tga, built>>

\* POST to any other path
PostNotFound ==
    /\ Serving
    /\ \E body \in RequestBodies({NoRel}, {""}) :
         LET raised == _read_json_body(body).raised
         IN http' = Handled("/", NoRel, raised,
                            IF raised = NoError
                            THEN <<[code |-> 404, error |-> ErrNotFound]>>
                            ELSE Responses(raised))
    /\ UNCHANGED <<phase, sessionVars, lock, fileVars, threadVars, entry, since_finalize,
                   prep, tga, built>>

NextHttp ==
    \/ StartReview
    \/ PostDecision \/ PostRerun \/ PostFinalize
    \/ PostShutdown \/ PostNotFound

SpecHttp == InitHttp /\ [][NextHttp]_vars

\* ------------------------------------------- the initial pass, then reruns
\* The per-item loop of the review or the batch run from an empty work directory,
\* and, once the review session is up, rerun requests of a single client.
InitPipeline ==
    /\ phase \in {"boot", "batch"}
    /\ manifest = NoManifest
    /\ Unstarted
    /\ prep = NoPrep
    /\ tga = NoTga
    /\ built = NoBuilt
    /\ http = NoHttp

\* the client posts /api/rerun
RerunAlone(rel, val) ==
    /\ MayMutate
    /\ Enter(Client, "rerun", rel, val)

NextPipeline ==
    \/ PrepareItem \/ PrepareItemRaises \/ PrepareDone
    \/ BatchItem \/ BatchItemRaises \/ BatchPackage
    \/ \E rel \in RequestRels("rerun"), val \in RequestVals("rerun") : RerunAlone(rel, val)
    \/ RerunCheck(Client) \/ RerunUpscale(Client) \/ RerunPreview(Client)
    \/ RerunCommit(Client) \/ RerunExcept(Client)
    \/ SaveInc(Client) \/ SaveWrite(Client) \/ Unlock(Client) \/ Respond(Client)

SpecPipeline == InitPipeline /\ [][NextPipeline]_vars

\* ------------------------------------------------- requests that wait
\* The session with the wait at `with self.lock` made explicit: a request's call
\* reaches the with statement ("waiting") and enters the block in a later step,
\* when the lock is free.  Every request is handled by a thread of its own.
Callers == {Client, Client + 1}

\* the session as main leaves it when no manifest was found and every image was
\* upscaled with the first preset: the records, the artifacts, the first manifest
FreshRecords == [i \in Items |-> PreparedRecord(<<>>, i, "upscaled")]

FreshSession ==
    /\ phase = "serving"
    /\ records = FreshRecords
    /\ revision = NextRevision(InitialRevision)
    /\ finalized = FALSE
    /\ finalize_summary = NoSummary
    /\ lock = FALSE
    /\ manifest = manifest_payload(FreshRecords, NextRevision(InitialRevision), FALSE, NoSummary)
    /\ original = [i \in Items |-> SourceBytes(i)]
    /\ candidate = [i \in Items |-> PreparedCandidate(<<>>, i, "upscaled")]
    /\ preview_original = [i \in Items |-> BrowserPreview(SourceBytes(i))]
    /\ preview_candidate =
          [i \in Items |-> BrowserPreview(PreparedCandidate(<<>>, i, "upscaled"))]
    /\ final_package = EmptyTree
    /\ output_pk3 = EmptyTree
    /\ pc = [t \in Threads |-> "idle"]
    /\ op = [t \in Threads |-> "none"]
    /\ arg_rel = [t \in Threads |-> GoneItem]
    /\ arg_val = [t \in Threads |-> "none"]
    /\ previous_status = [t \in Threads |-> "none"]
    /\ exc = [t \in Threads |-> NoError]
    /\ copied = [t \in Threads |-> 0]
    /\ payload = [t \in Threads |-> NoPayload]
    /\ saves = [t \in Threads |-> NoSaves]
    /\ entry = NoEntry
    /\ since_finalize = "none"
    /\ prep = NoPrep
    /\ tga = NoTga
    /\ built = NoBuilt

InitLive == FreshSession /\ http = NoHttp

\* the images the requests name: the first one, a .tga, whose rerun has every
\* failing step, and one the session does not know
LiveRels(operation) == RequestRels(operation) \ (Items \ {1})

\* the handler calls api_state, set_decision (with a valid status), rerun_one or
\* finalize_package, and the call reaches its with statement
CallSession(t, operation, rel, val) ==
    /\ phase = "serving"
    /\ pc[t] = "idle"
    /\ operation \in MutatingOps => MayMutate
    /\ op' = [op EXCEPT ![t] = operation]
    /\ arg_rel' = [arg_rel EXCEPT ![t] = rel]
    /\ arg_val' = [arg_val EXCEPT ![t] = val]
    /\ pc' = [pc EXCEPT ![t] = "waiting"]
    /\ UNCHANGED <<tga, built, http, prep, since_finalize, phase, sessionVars, lock, fileVars,
                   previous_status, exc, copied, payload, saves, entry>>

\* threading.Lock.acquire returns: the call is inside its with block
EnterBlock(t) ==
    /\ pc[t] = "waiting"
    /\ LockFree
    /\ lock' = TRUE
    /\ pc' = [pc EXCEPT ![t] =
                IF op[t] = "decide" THEN "d_body"
                ELSE IF op[t] = "rerun" THEN "r_check"
                ELSE IF op[t] = "finalize" THEN "f_clear"
                ELSE "s_read"]
    /\ entry' = [records |-> records, candidate |-> candidate,
                 preview_candidate |-> preview_candidate, revision |-> revision,
                 output_pk3 |-> output_pk3, finalize_summary |-> finalize_summary,
                 since_finalize |-> since_finalize]
    /\ UNCHANGED <<tga, built, http, prep, since_finalize, phase, sessionVars, fileVars,
                   op, arg_rel, arg_val, previous_status, exc, copied, payload, saves>>

\* the steps of a call inside its with block, the release of the lock, and the
\* handler's response; every external command ends, by success, by failure or by
\* the timeout of run_subprocess
Running(t) ==
    \/ SaveInc(t) \/ SaveWrite(t) \/ Unlock(t) \/ Respond(t)
    \/ ApiState(t) \/ SetDecision(t)
    \/ RerunCheck(t) \/ RerunUpscale(t) \/ RerunPreview(t)
    \/ RerunCommit(t) \/ RerunExcept(t)
    \/ FinalizeClear(t) \/ FinalizeCopy(t) \/ FinalizePackage(t)

NextLive ==
    \E t \in Callers :
         \/ CallInvalidDecide(t)
         \/ \E operation \in Operations :
              \E rel \in LiveRels(operation), val \in RequestVals(operation) :
                 CallSession(t, operation, rel, val)
         \/ EnterBlock(t)
         \/ Running(t)

\* threads are scheduled fairly, and a thread waiting for the lock gets it when
\* the lock is released again and again
Fairness ==
    \A t \in Callers : WF_vars(Running(t)) /\ SF_vars(EnterBlock(t))

SpecLive == InitLive /\ [][NextLive]_vars /\ Fairness

\* ------------------------------------------------------------ shutdown
\* The review server with its request threads and the main thread: a POST to
\* /api/shutdown is answered and starts server.shutdown; serve_forever returns and
\* server_close runs, which does not wait for the request threads
\* (ThreadingHTTPServer starts them as daemon threads); main reads the session,
\* removes the work directory when the session is finalized and --keep-work-dir was
\* not given, and returns: the process ends and its daemon threads with it.
InitShutdown == FreshSession /\ http = [stage |-> "up"]

\* a request that calls rerun_one or finalize_package is accepted
AcceptRequest(t, operation, rel, val) ==
    /\ http.stage = "up"
    /\ Acquire(t, operation, rel, val)

\* the steps of a request thread while the process lives
ThreadStep(t) ==
    /\ http.stage # "exited"
    /\ \/ RerunCheck(t) \/ RerunUpscale(t) \/ RerunPreview(t)
       \/ RerunCommit(t) \/ RerunExcept(t)
       \/ FinalizeClear(t) \/ FinalizeCopy(t) \/ FinalizePackage(t)
       \/ SaveInc(t) \/ SaveWrite(t) \/ Unlock(t) \/ Respond(t)

\* POST /api/shutdown: the 200 response, then the thread that calls server.shutdown
ShutdownRequested ==
    /\ phase = "serving"
    /\ http.stage = "up"
    /\ http' = [stage |-> "stopping"]
    /\ UNCHANGED <<phase, sessionVars, lock, fileVars, threadVars, entry, since_finalize,
                   prep, tga, built>>

\* serve_forever returns and the finally clause runs server_close
ServerClosed ==
    /\ http.stage = "stopping"
    /\ http' = [stage |-> "closed"]
    /\ UNCHANGED <<phase, sessionVars, lock, fileVars, threadVars, entry, since_finalize,
                   prep, tga, built>>

\* main after run_review_server: review_completed and should_cleanup are
\* session.finalized; the finally clause removes the work directory, with the
\* manifest and every review artifact in it, unless it is kept
MainReturns ==
    /\ http.stage = "closed"
    /\ \E keep_work_dir \in BOOLEAN :
         IF ~keep_work_dir /\ finalized
         THEN /\ manifest' = NoManifest
              /\ original' = [i \in DOMAIN original |-> Absent]
              /\ candidate' = [i \in DOMAIN candidate |-> Absent]
              /\ preview_original' = [i \in DOMAIN preview_original |-> Absent]
              /\ preview_candidate' = [i \in DOMAIN preview_candidate |-> Absent]
              /\ final_package' = EmptyTree
              /\ UNCHANGED output_pk3
         ELSE UNCHANGED fileVars
    /\ http' = [stage |-> "exited"]
    /\ UNCHANGED <<phase, sessionVars, lock, threadVars, entry, since_finalize,
                   prep, tga, built>>

NextShutdown ==
    \/ \E t \in Callers, operation \in {"rerun", "finalize"} :
         \E rel \in LiveRels(operation), val \in RequestVals(operation) :
            AcceptRequest(t, operation, rel, val)
    \/ \E t \in Callers : ThreadStep(t)
    \/ ShutdownRequested \/ ServerClosed \/ MainReturns

SpecShutdown == InitShutdown /\ [][NextShutdown]_vars

\* ------------------------------------------------- the prior manifest
\* The manifest file as main finds it, by what it holds: no file, a file that
\* cannot be read, bytes that are not text, text that is not JSON, or a JSON value.
\* A JSON value is a record with its type; an object carries the keys the code
\* reads.  load_previous_decisions and the start of the session are applied to it.
ErrAttribute == "AttributeError"

\* the "rel_path" of an entry of the image list: the key is absent, its value is
\* not a string, its value is the empty string (NoRel), or it names an image
KeyAbsent == -1
NotAString == -2
EntryRels == {KeyAbsent, NotAString, NoRel} \cup Items

\* a value an entry has under "status" or "selected_preset", or "absent"
EntryStatuses == {REVIEW_STATUS_REJECTED, "absent"}
EntryPresets == {preset_order[Len(preset_order)], "absent"}

JsonScalars == {[type |-> "null"], [type |-> "number"], [type |-> "string"]}

ImageEntries ==
    {[type |-> "string"]} \cup
    {[type |-> "object", rel_path |-> r, status |-> st, selected_preset |-> p] :
        r \in EntryRels, st \in EntryStatuses, p \in EntryPresets}

ImageLists == UNION {[1..n -> ImageEntries] : n \in 0..MaxEntries}

JsonValues ==
    JsonScalars
    \cup {[type |-> "array", items |-> <<>>]}
    \cup {[type |-> "object", images |-> v] :
            v \in JsonScalars \cup {[type |-> "absent"]}}
    \cup {[type |-> "object", images |-> [type |-> "array", items |-> items]] :
            items \in ImageLists}

ManifestFiles ==
    {[kind |-> k] : k \in {"missing", "unreadable", "undecodable", "invalid"}}
    \cup {[kind |-> "json", value |-> v] : v \in JsonValues}

\* the entries of the list that get into the result, in the order of the list:
\* dicts whose rel_path is a non-empty string
Usable(item) ==
    item.type = "object" /\ item.rel_path \notin {KeyAbsent, NotAString, NoRel}

\* out[rel_path] = item, for every usable item: a later entry replaces an earlier
\* one with the same rel_path
Collected(items) ==
    LET keys == {items[n].rel_path : n \in {m \in DOMAIN items : Usable(items[m])}}
    IN [k \in keys |->
           LET last == CHOOSE n \in DOMAIN items :
                           /\ Usable(items[n]) /\ items[n].rel_path = k
                           /\ \A n2 \in DOMAIN items :
                                 (Usable(items[n2]) /\ items[n2].rel_path = k) => n2 <= n
           IN [status |-> items[last].status,
               selected_preset |-> items[last].selected_preset]]

\* load_previous_decisions on the file: the exception that leaves it, if any, and
\* the dict it returns
LoadedNothing == [raised |-> NoError, previous |-> <<>>]
load_previous_decisions_file(file) ==
    IF file.kind \in {"missing", "unreadable", "invalid"} THEN LoadedNothing
    ELSE IF file.kind = "undecodable" THEN [raised |-> FaultDecode, previous |-> <<>>]
    ELSE IF file.value.type # "object" THEN [raised |-> ErrAttribute, previous |-> <<>>]
    ELSE IF file.value.images.type # "array" THEN LoadedNothing
    ELSE [raised |-> NoError, previous |-> Collected(file.value.images.items)]

InitPrior ==
    /\ phase = "boot"
    /\ manifest \in ManifestFiles
    /\ Unstarted
    /\ prep = NoPrep
    /\ tga = NoTga
    /\ built = NoBuilt
    /\ http = NoHttp

\* main calls load_previous_decisions(review_manifest_path); an exception that
\* leaves it leaves main
LoadPrevious ==
    /\ phase = "boot"
    /\ prep = NoPrep
    /\ LET loaded == load_previous_decisions_file(manifest)
       IN /\ prep' = [stage |-> "loaded", file |-> manifest, raised |-> loaded.raised,
                      previous |-> loaded.previous]
          /\ phase' = IF loaded.raised = NoError THEN "boot" ELSE "aborted"
    /\ UNCHANGED <<tga, built, http, sessionVars, lock, fileVars, threadVars, entry,
                   since_finalize>>

\* prepare_review_records with the dict, the session, its first manifest; outcome
\* is what the size check and the pipeline made of the images
StartReviewFrom ==
    /\ phase = "boot"
    /\ prep # NoPrep
    /\ \E outcome \in {"skipped", "upscaled", "failed"} :
         LET recs == [i \in Items |-> PreparedRecord(prep.previous, i, outcome)]
             cand == [i \in Items |-> PreparedCandidate(prep.previous, i, outcome)]
         IN /\ records' = recs
            /\ original' = [i \in Items |-> SourceBytes(i)]
            /\ candidate' = cand
            /\ preview_original' = [i \in Items |-> BrowserPreview(SourceBytes(i))]
            /\ preview_candidate' = [i \in Items |-> BrowserPreview(cand[i])]
            /\ revision' = NextRevision(InitialRevision)
            /\ manifest' = manifest_payload(recs, NextRevision(InitialRevision),
                                            FALSE, NoSummary)
    /\ phase' = "serving"
    /\ UNCHANGED <<tga, built, http, prep, since_finalize, finalized, finalize_summary, lock,
                   final_package, output_pk3, threadVars, entry>>

NextPrior == LoadPrevious \/ StartReviewFrom

SpecPrior == InitPrior /\ [][NextPrior]_vars

\* ================================================================ claims
\* the call of thread t is at the end of its critical section, about to return
AtReturn(t, operation) == pc[t] = "unlock" /\ op[t] = operation
CurrentManifest == manifest_payload(records, revision, finalized, finalize_summary)
FailedRerun(t) == AtReturn(t, "rerun") /\ exc[t] \in PipelineErrors

\* C1: the critical sections of decide, rerun, finalize and the state read are
\* mutually exclusive, and the payload a state read returns is the state some
\* completed operation left (the one the manifest file holds), never a record
\* updated ahead of its revision.
C1_MutualExclusion ==
    /\ \A t1, t2 \in Threads :
         t1 # t2 => ~(InCriticalSection(t1) /\ InCriticalSection(t2))
    /\ \A t \in Threads : InCriticalSection(t) => lock
    /\ \A t \in Threads : AtReturn(t, "state") => payload[t] = manifest

C1_Witness ==
    \E t1, t2 \in Threads :
        /\ AtReturn(t1, "state")
        /\ payload[t1].revision >= 2
        /\ pc[t2] = "returned"

C3_RejectionChangesNothing ==
    [][\A t \in Threads :
          /\ (/\ pc[t] \in {"d_body", "r_check"}
              /\ pc'[t] # pc[t]
              /\ \/ arg_rel[t] \notin DOMAIN records
                 \/ op[t] = "rerun" /\ arg_val[t] \notin PresetNames)
               => exc'[t] \in RejectionErrors
          /\ (exc[t] = NoError /\ exc'[t] \in RejectionErrors)
               => /\ UNCHANGED <<sessionVars, fileVars>>
                  /\ pc[t] \in {"d_body", "r_check"}
          /\ exc[t] \in RejectionErrors
               => /\ UNCHANGED <<sessionVars, fileVars>>
                  /\ pc'[t] \in {"unlock", "returned"}
          /\ (pc[t] = "idle" /\ pc'[t] = "returned")
               => UNCHANGED <<sessionVars, fileVars>>]_vars

C3_Witness ==
    \E t \in Threads :
        /\ AtReturn(t, "rerun")
        /\ exc[t] \in {ErrUnknownPreset, ErrModelMissing}
        /\ arg_rel[t] \in DOMAIN records
        /\ records = entry.records
        /\ manifest = CurrentManifest

C5_FailedRerunKeepsFiles ==
    \A t \in Threads :
        FailedRerun(t) =>
            /\ candidate[arg_rel[t]] = entry.candidate[arg_rel[t]]
            /\ preview_candidate[arg_rel[t]] = entry.preview_candidate[arg_rel[t]]
            /\ records[arg_rel[t]].last_error = exc[t]

\* C6: a rerun whose pipeline and preview both succeed ends with the record
\* accepted, selectedPreset the requested preset, lastError null, and candidate
\* and preview-of-candidate holding the new output.
C6_SuccessfulRerun ==
    \A t \in Threads :
        (AtReturn(t, "rerun") /\ exc[t] = NoError) =>
            /\ records[arg_rel[t]].status = REVIEW_STATUS_ACCEPTED
            /\ records[arg_rel[t]].selected_preset = arg_val[t]
            /\ records[arg_rel[t]].last_error = NoError
            /\ candidate[arg_rel[t]] = Upscaled(arg_rel[t], arg_val[t])
            /\ preview_candidate[arg_rel[t]]
                 = BrowserPreview(Upscaled(arg_rel[t], arg_val[t]))

C6_Witness ==
    \E t \in Threads :
        /\ AtReturn(t, "rerun")
        /\ exc[t] = NoError
        /\ entry.records[arg_rel[t]].status = REVIEW_STATUS_REJECTED
        /\ entry.records[arg_rel[t]].last_error # NoError
        /\ entry.records[arg_rel[t]].selected_preset # arg_val[t]
        /\ entry.candidate[arg_rel[t]] # candidate[arg_rel[t]]

C8_RevisionSteps ==
    [][/\ revision' \in {revision, revision + 1}
       /\ (phase = "serving" /\ manifest' # manifest)
            => /\ manifest'.revision = manifest.revision + 1
               /\ manifest'.revision = revision'
       /\ \A t \in Threads :
            (op[t] = "state" /\ InCriticalSection(t)) => revision' = revision]_vars

C8_Witness ==
    /\ phase = "serving"
    /\ manifest.revision = MaxRevision
    /\ \E t \in Threads : AtReturn(t, "decide")

\* C9: a session that resumes from an existing manifest writes, as its first
\* manifest, a revision greater than the revision of the manifest it replaces.
C9_RevisionGrowsAcrossSessions ==
    [][(phase = "boot" /\ phase' = "serving" /\ manifest.version = 1)
          => manifest'.revision > manifest.revision]_vars

\* C10: when finalize returns, the output tree and the archive hold exactly one
\* file per record and nothing else, the candidate of an accepted record and the
\* original of any other; finalized is true, the result counts one packaged file
\* per record and carries the current summary, and the manifest is persisted.
C10_FinalizeOutput ==
    \A t \in Threads :
        AtReturn(t, "finalize") =>
            /\ DOMAIN final_package = DOMAIN records
            /\ \A k \in DOMAIN records :
                 final_package[k] = IF records[k].status = REVIEW_STATUS_ACCEPTED
                                    THEN candidate[k] ELSE original[k]
            /\ output_pk3 = final_package
            /\ finalized
            /\ finalize_summary = [packaged_files |-> Cardinality(DOMAIN records),
                                   summary |-> summary(records)]
            /\ manifest = CurrentManifest

C10_Witness ==
    \E t \in Threads :
        /\ AtReturn(t, "finalize")
        /\ \E k1, k2 \in DOMAIN records :
             /\ records[k1].status = REVIEW_STATUS_ACCEPTED
             /\ candidate[k1] # original[k1]
             /\ final_package[k1] = candidate[k1]
             /\ records[k2].status = REVIEW_STATUS_REJECTED
             /\ candidate[k2] # original[k2]
             /\ final_package[k2] = original[k2]

\* C11: when a finalize returns and the previous completed mutation was a finalize
\* too (no decide or rerun took effect in between), the archive and the finalize
\* result are the ones the previous finalize left, the records and the artifacts are
\* untouched, and the revision is one more than before the call.
C11_FinalizeIdempotent ==
    \A t \in Threads :
        (AtReturn(t, "finalize") /\ entry.since_finalize = "clean") =>
            /\ output_pk3 = entry.output_pk3
            /\ finalize_summary = entry.finalize_summary
            /\ final_package = output_pk3
            /\ records = entry.records
            /\ candidate = entry.candidate
            /\ revision = entry.revision + 1

C11_Witness ==
    \E t \in Threads :
        /\ AtReturn(t, "finalize")
        /\ entry.since_finalize = "clean"
        /\ revision = 3
        /\ \E k1, k2 \in DOMAIN records :
             /\ output_pk3[k1] = candidate[k1] /\ candidate[k1] # original[k1]
             /\ output_pk3[k2] = original[k2] /\ candidate[k2] # original[k2]

\* C12: everything a finalize packages belongs to the state in which it took the
\* lock: while it runs, the records and the candidates stay as they were then, each
\* file it has copied is the choice that state gives, and when it returns the
\* archive and the summary of its result are those of that one state.
C12_FinalizeSnapshot ==
    \A t \in Threads :
        (op[t] = "finalize" /\ InCriticalSection(t)) =>
            /\ records = entry.records
            /\ candidate = entry.candidate
            /\ pc[t] # "f_clear" =>
                  \A k \in DOMAIN final_package :
                      final_package[k] =
                          IF entry.records[k].status = REVIEW_STATUS_ACCEPTED
                          THEN entry.candidate[k] ELSE original[k]
            /\ pc[t] = "unlock" =>
                  /\ output_pk3 =
                        [k \in DOMAIN entry.records |->
                            IF entry.records[k].status = REVIEW_STATUS_ACCEPTED
                            THEN entry.candidate[k] ELSE original[k]]
                  /\ finalize_summary.summary = summary(entry.records)

C12_Witness ==
    \E t1, t2 \in Threads :
        /\ t1 # t2
        /\ pc[t1] = "f_copy" /\ copied[t1] = 1
        /\ pc[t2] = "returned"
        /\ \E k1, k2 \in DOMAIN records :
             records[k1].status # records[k2].status

\* the decisions loaded from the manifest the run found (while it is preparing)
Previous == load_previous_decisions(manifest)
Resumed(i) == i \in DOMAIN Previous /\ Previous[i].selected_preset \in PresetNames

C14_StalePresetResets ==
    phase = "boot" =>
        \A i \in DOMAIN records \ prep.failed :
            (i \in DOMAIN Previous /\ Previous[i].selected_preset \notin PresetNames) =>
                /\ records[i].selected_preset = preset_order[1]
                /\ records[i].status = REVIEW_STATUS_ACCEPTED

\* C15: the records are those of the identities discovered so far and, once the
\* session serves, exactly the discovered ones, as are the entries of the manifest
\* it writes; an identity of the prior manifest that is not discovered now has no
\* record, and a discovered one the prior manifest lacks starts accepted with the
\* first configured preset unless its pipeline run failed.
C15_RecordsAreDiscovered ==
    /\ GoneItem \notin DOMAIN records
    /\ phase = "boot" =>
          /\ DOMAIN records = 1..prep.cursor
          /\ \A i \in DOMAIN records \ (DOMAIN Previous \cup prep.failed) :
                /\ records[i].status = REVIEW_STATUS_ACCEPTED
                /\ records[i].selected_preset = preset_order[1]
    /\ phase = "serving" =>
          /\ DOMAIN records = Items
          /\ {manifest.images[n].rel_path : n \in DOMAIN manifest.images} = Items

C15_Witness ==
    /\ phase = "boot"
    /\ prep.cursor = NumItems
    /\ GoneItem \in DOMAIN Previous
    /\ \E i, j \in Items :
         /\ i \notin DOMAIN Previous /\ i \in prep.sent \ prep.failed
         /\ j \in DOMAIN Previous
         /\ records[i].status # records[j].status

\* C16: a record whose initial pipeline run failed is rejected and has a lastError,
\* whatever the prior manifest recorded, and its candidate is the source file.
C16_InitialFailureRejects ==
    \A i \in prep.failed \cap DOMAIN records :
        /\ records[i].status = REVIEW_STATUS_REJECTED
        /\ records[i].last_error # NoError
        /\ candidate[i] = SourceBytes(i)
        /\ candidate[i] = original[i]

C16_Witness ==
    /\ phase = "boot"
    /\ \E i \in prep.failed \cap DOMAIN records :
         /\ Resumed(i)
         /\ Previous[i].status = REVIEW_STATUS_ACCEPTED
         /\ records[i].status = REVIEW_STATUS_REJECTED

\* C17: in every iteration of the initial pass, review or batch, the image is kept
\* from the upscaler exactly when its larger dimension exceeds maxDimension (not
\* when it equals it); a skipped image has the source bytes as candidate, is not
\* counted as failed and, in review mode, has the prior status (accepted without
\* one) and no lastError.
C17_SkippedBySize ==
    [][prep'.cursor = prep.cursor + 1 =>
         LET i == prep'.cursor
             larger == IF prep'.width > prep'.height THEN prep'.width ELSE prep'.height
         IN /\ (larger > MaxDimension) <=> (i \notin prep'.sent)
            /\ (larger > MaxDimension) =>
                  /\ candidate'[i] = SourceBytes(i)
                  /\ i \notin prep'.failed
                  /\ phase = "boot" =>
                        /\ records'[i].last_error = NoError
                        /\ records'[i].status =
                              IF i \in DOMAIN Previous THEN Previous[i].status
                              ELSE REVIEW_STATUS_ACCEPTED]_vars

C17_Witness ==
    /\ phase = "boot"
    /\ prep.cursor >= 1
    /\ prep.width = MaxDimension + 1
    /\ prep.height = MaxDimension
    /\ prep.cursor \notin prep.sent
    /\ records[prep.cursor].status = REVIEW_STATUS_REJECTED
    /\ candidate[prep.cursor] = SourceBytes(prep.cursor)

\* C18: in batch mode no failure of one item (its dimensions cannot be decoded, a
\* conversion or the upscaler fails) stops the run before the remaining items are
\* processed and the package is written.
C18_BatchNeverAborts == phase # "batch_aborted"

\* C19: while a review session is prepared, no failure of one item (its dimensions
\* cannot be decoded, its pipeline run or a preview fails) stops the preparation
\* before every discovered item has its record.
C19_PreparationNeverAborts == ~(phase = "aborted" /\ DOMAIN records # Items)

\* C20: no step of a state read changes the records, the revision, the finalized
\* flag, the finalize result or the manifest file, whatever the other threads have
\* asked for, and the payload it returns is the state the last completed mutation
\* left: the session as it was when the read took the lock, which is what the
\* manifest file holds.
C20_StateReadChangesNothing ==
    [][\A t \in Threads :
          (op[t] = "state" /\ InCriticalSection(t)) =>
              /\ UNCHANGED <<sessionVars, manifest>>
              /\ pc'[t] = "unlock" =>
                    /\ payload'[t] = manifest
                    /\ payload'[t] = manifest_payload(entry.records, entry.revision,
                                                      finalized, finalize_summary)]_vars

C20_Witness ==
    \E t1, t2 \in Threads :
        /\ t1 # t2
        /\ AtReturn(t1, "state")
        /\ payload[t1].finalized
        /\ payload[t1].revision = 2
        /\ pc[t2] = "returned"

\* ---- the TGA codec
\* the number of pixels the first k packets of the stream stand for, and the number
\* of bytes they take in the file
RECURSIVE Supplied(_, _)
Supplied(packets, k) == IF k = 0 THEN 0 ELSE Supplied(packets, k - 1) + packets[k].count
RECURSIVE EncodedLength(_, _, _)
EncodedLength(packets, k, pixel_size) ==
    IF k = 0 THEN 0
    ELSE EncodedLength(packets, k - 1, pixel_size)
         + Len(PacketBytes(packets[k], pixel_size))
\* the packets that are whole in the file
WholePackets == IF tga.made.cut THEN Len(tga.made.packets) - 1 ELSE Len(tga.made.packets)
\* the prefixes of the stream that stand for exactly width*height pixels
ExactPrefixes ==
    {k \in 0..WholePackets :
        Supplied(tga.made.packets, k) = tga.made.width * tga.made.height}
ImageBytes == tga.made.width * tga.made.height * tga.made.pixel_size
RowBytes == tga.made.width * tga.made.pixel_size

\* C23: normalizing a file whose origin bit (descriptor bit 5) is clear leaves the
\* file byte-identical, whether its pixel data is raw or run-length encoded, and
\* raises nothing when the file is one the codec handles.
C23_BottomLeftUntouched ==
    (tga.stage = "normalized" /\ ~tga.made.top_down) =>
        /\ tga.file = tga.input
        /\ tga.made.supported => tga.error = NoError

C23_Witness ==
    /\ tga.stage = "normalized"
    /\ ~tga.made.top_down
    /\ tga.made.image_type = 10
    /\ tga.made.height = 2
    /\ ExactPrefixes # {}
    /\ tga.made.trailer # <<>>
    /\ tga.file = tga.input

\* C24: normalizing a top-left file with raw pixel data succeeds and writes a file
\* whose row r is the input's row height-1-r, byte for byte, whose image type is 2
\* and whose origin bit is clear.
C24_RawRowsReversed ==
    (/\ tga.stage = "normalized"
     /\ tga.made.top_down /\ tga.made.image_type = 2
     /\ tga.made.supported /\ ~tga.made.cut) =>
        /\ tga.error = NoError
        /\ tga.file[3] = 2
        /\ (tga.file[18] \div 32) % 2 = 0
        /\ \A r \in 0..(tga.made.height - 1) :
             Slice(tga.file, tga.made.start + r * RowBytes,
                   tga.made.start + (r + 1) * RowBytes)
               = Slice(tga.input, tga.made.start + (tga.made.height - 1 - r) * RowBytes,
                       tga.made.start + (tga.made.height - r) * RowBytes)

C24_Witness ==
    /\ tga.stage = "normalized"
    /\ tga.error = NoError
    /\ tga.made.top_down /\ tga.made.image_type = 2
    /\ tga.made.height = 2 /\ tga.made.width = 2
    /\ tga.input[tga.made.start + 1] # tga.input[tga.made.start + tga.made.pixel_size + 1]
    /\ Slice(tga.input, tga.made.start, tga.made.start + RowBytes)
         # Slice(tga.input, tga.made.start + RowBytes, tga.made.start + 2 * RowBytes)
    /\ Slice(tga.file, tga.made.start, tga.made.start + RowBytes)
         = Slice(tga.input, tga.made.start + RowBytes, tga.made.start + 2 * RowBytes)

C26_RewrittenFile ==
    (/\ tga.stage = "normalized"
     /\ tga.made.top_down /\ tga.made.supported
     /\ tga.error = NoError) =>
        LET pixel_data == IF tga.made.image_type = 2 THEN ImageBytes
                          ELSE EncodedLength(tga.made.packets,
                                             CHOOSE k \in ExactPrefixes : TRUE,
                                             tga.made.pixel_size)
            followed == Slice(tga.input, tga.made.start + pixel_data, Len(tga.input))
        IN /\ tga.made.image_type = 10 => ExactPrefixes # {}
           /\ Slice(tga.file, 0, 18)
                = [Slice(tga.input, 0, 18) EXCEPT ![3] = 2, ![18] = @ - 32]
           /\ Slice(tga.file, 18, tga.made.start) = Slice(tga.input, 18, tga.made.start)
           /\ Len(tga.file) = tga.made.start + ImageBytes + Len(followed)
           /\ Slice(tga.file, tga.made.start + ImageBytes, Len(tga.file)) = followed

C26_Witness ==
    /\ tga.stage = "normalized"
    /\ tga.error = NoError
    /\ tga.made.top_down
    /\ tga.made.image_type = 10
    /\ tga.made.start > 18
    /\ tga.made.trailer # <<>>
    /\ Len(tga.file) # Len(tga.input)
    /\ tga.file[18] = 8

\* ---- the preset list
\* the presets the list is built from, and the positions that survive: the first
\* occurrence of each name, when its model is available
GivenPresets ==
    IF built.rerun_preset # <<>> THEN built.rerun_preset ELSE DefaultPresets(built.model)
KeptPositions ==
    {n \in DOMAIN GivenPresets :
        /\ \A n2 \in 1..(n - 1) : GivenPresets[n2].name # GivenPresets[n].name
        /\ GivenPresets[n].model \in built.available}

\* C28: a preset list that is built is non-empty, has no name twice, holds only
\* presets whose model is available, and is the given list restricted to the first
\* occurrence of each name, in the given order; when no given preset has an
\* available model the construction fails with an error and yields no list.
C28_PresetList ==
    built.stage = "built" =>
        /\ built.error = NoError =>
              /\ built.presets # <<>>
              /\ \A n1, n2 \in DOMAIN built.presets :
                    n1 # n2 => built.presets[n1].name # built.presets[n2].name
              /\ \A n \in DOMAIN built.presets :
                    built.presets[n].model \in built.available
              /\ LET kept == SortedSeq(KeptPositions)
                 IN built.presets = [n \in 1..Len(kept) |-> GivenPresets[kept[n]]]
        /\ (\A n \in DOMAIN GivenPresets : GivenPresets[n].model \notin built.available)
              => built.error # NoError
        /\ built.error # NoError => built.presets = <<>>

C28_Witness ==
    /\ built.stage = "built"
    /\ built.error = NoError
    /\ Len(built.rerun_preset) = 3
    /\ built.rerun_preset[1].name = built.rerun_preset[2].name
    /\ built.rerun_preset[1].model # built.rerun_preset[2].model
    /\ built.presets = <<built.rerun_preset[1], built.rerun_preset[3]>>

\* ---- static files
\* the location the path of the request resolves to
StaticRequest == http.stage = "responded" /\ http.path # <<>> /\ http.path[1] = "preview"
ResolvedLocation == Resolve(<<>>, review_root \o Unquoted(http.path), http.links)

\* C22: a request for a static file is answered with file content only when its
\* path resolves to a location inside the review root, and then with the content
\* of the file at that location; a request whose path resolves outside the root
\* (through "..", plain or percent-encoded, or through a symbolic link) is refused
\* with 403 and no content.
C22_StaticInsideRoot ==
    StaticRequest =>
        /\ ~IsPrefix(review_root, ResolvedLocation) =>
              http.code = 403 /\ http.body = Absent
        /\ http.body # Absent =>
              /\ http.code = 200
              /\ IsPrefix(review_root, ResolvedLocation)
              /\ http.body = FileAt(ResolvedLocation)
              /\ http.body # OutsideBytes

C22_Witness ==
    /\ StaticRequest
    /\ http.links = NoLinks
    /\ \E n \in DOMAIN http.path : http.path[n] \in {"%2e%2e", "..%2f.."}
    /\ ResolvedLocation = <<"work", "secret">>
    /\ http.code = 403
    /\ http.body = Absent

\* ---- the POST handler
SessionPaths == {"/api/decision", "/api/rerun", "/api/finalize"}

\* C21: a POST to decision, rerun or finalize is answered exactly once: 200 when
\* the session method returned, 400 with the message of the UpscaleError when it
\* raised one, 500 with the generic text when anything else was raised; after the
\* response the session lock is free and the server has not stopped, so the next
\* request is taken.
C21_OneResponse ==
    (http.stage = "up" /\ http.path \in SessionPaths) =>
        /\ Len(http.responses) = 1
        /\ http.raised = NoError =>
              http.responses[1] = [code |-> 200, error |-> NoError]
        /\ http.raised \in UpscaleErrors =>
              http.responses[1] = [code |-> 400, error |-> http.raised]
        /\ http.raised \in Faults =>
              http.responses[1] = [code |-> 500, error |-> ErrUnexpected]
        /\ http.raised \in {NoError} \cup UpscaleErrors \cup Faults
        /\ Serving

C21_Witness ==
    /\ http.stage = "up"
    /\ http.path = "/api/rerun"
    /\ http.after_fault
    /\ http.responses = <<[code |-> 400, error |-> ErrUpscale]>>
    /\ records[http.rel_path].last_error = ErrUpscale

\* C27: in every state of the session, also one whose records were seeded from a
\* manifest with a status that is neither accepted nor rejected, every record is
\* accepted or rejected, and the counts of the summary, in memory and in the
\* manifest the session wrote, add up to the number of records.
C27_StatusInvariant ==
    /\ \A i \in DOMAIN records : records[i].status \in ValidStatuses
    /\ summary(records).accepted + summary(records).rejected = summary(records).total
    /\ summary(records).total = Cardinality(DOMAIN records)
    /\ phase = "serving" =>
          /\ manifest.summary.accepted + manifest.summary.rejected = manifest.summary.total
          /\ \A n \in DOMAIN manifest.images : manifest.images[n].status \in ValidStatuses

C27_Witness ==
    /\ phase = "serving"
    /\ http.stage = "up"
    /\ http.path = "/api/decision"
    /\ http.raised = ErrInvalidStatus
    /\ \E i, j \in DOMAIN records :
         /\ i \in DOMAIN http.previous
         /\ http.previous[i].status \notin ValidStatuses
         /\ records[i].status = REVIEW_STATUS_ACCEPTED
         /\ records[j].status = REVIEW_STATUS_REJECTED

\* C29: a rerun request whose pipeline fails leaves the record with the status it
\* had before the request (accepted stays accepted, rejected stays rejected) and
\* with its selectedPreset, sets lastError to the failure text, persists that, and
\* is answered with that text as a client error.
C29_FailedRerunRestoresStatus ==
    [][(/\ phase = "serving"
        /\ http'.path = "/api/rerun"
        /\ http'.raised \in PipelineErrors)
       => LET i == http'.rel_path
          IN /\ i \in DOMAIN records
             /\ records'[i].status = records[i].status
             /\ records'[i].selected_preset = records[i].selected_preset
             /\ records'[i].last_error = http'.raised
             /\ \A k \in DOMAIN records \ {i} : records'[k] = records[k]
             /\ manifest' = manifest_payload(records', revision', finalized',
                                             finalize_summary')
             /\ http'.responses = <<[code |-> 400, error |-> http'.raised]>>]_vars

C29_Witness ==
    /\ http.stage = "up"
    /\ http.path = "/api/rerun"
    /\ http.raised \in PipelineErrors
    /\ records[http.rel_path].status = REVIEW_STATUS_ACCEPTED
    /\ records[http.rel_path].last_error = http.raised
    /\ manifest.images[http.rel_path].last_error = http.raised
    /\ candidate[http.rel_path] # SourceBytes(http.rel_path)

\* C30: between operations every record's selectedPreset is a configured preset,
\* and a candidate file that is an upscaler output was made with the preset the
\* record names, also after a rerun that failed part-way.
C30_PresetMatchesCandidate ==
    (phase = "serving" /\ ~lock) =>
        \A i \in DOMAIN records :
            /\ records[i].selected_preset \in PresetNames
            /\ candidate[i].by \in PresetNames =>
                  candidate[i].by = records[i].selected_preset

\* ---- frame of a rerun
\* C31: while rerun_one runs for image X, whatever its outcome, no step changes the
\* record, the candidate or the candidate preview of another image, no step changes
\* an original or the preview of an original, X's included, and the set of records
\* stays the same.
C31_RerunFrame ==
    [][\A t \in Threads :
          (op[t] = "rerun" /\ InCriticalSection(t)) =>
              /\ DOMAIN records' = DOMAIN records
              /\ \A k \in DOMAIN records \ {arg_rel[t]} :
                    /\ records'[k] = records[k]
                    /\ candidate'[k] = candidate[k]
                    /\ preview_candidate'[k] = preview_candidate[k]
              /\ original' = original
              /\ preview_original' = preview_original]_vars

C31_Witness ==
    \E t \in Threads :
        /\ AtReturn(t, "rerun")
        /\ arg_rel[t] \in DOMAIN records
        /\ candidate[arg_rel[t]] # entry.candidate[arg_rel[t]]
        /\ records[arg_rel[t]] # entry.records[arg_rel[t]]
        /\ original[arg_rel[t]] = SourceBytes(arg_rel[t])
        /\ \E k \in DOMAIN records \ {arg_rel[t]} :
              /\ records[k] = entry.records[k]
              /\ candidate[k] = entry.candidate[k]
              /\ candidate[k].by \in PresetNames

\* ---- the pipeline
\* C32: whenever upscale_one_image returns without raising, in an iteration of the
\* review preparation or of the batch run or in a rerun, the file it leaves is the
\* upscaler's output for the preset in use and, when it is a .tga, the file as
\* normalize_tga_for_ioquake left it after the conversion.
C32_TgaCandidateNormalized ==
    [][/\ (/\ prep'.cursor = prep.cursor + 1
           /\ (prep.cursor + 1) \in prep'.sent \ prep'.failed)
          => LET i == prep.cursor + 1
             IN /\ candidate'[i].by \in PresetNames
                /\ Ext(i) = "tga" => candidate'[i].origin = "bottom-left"
       /\ (pc[Client] = "r_upscale" /\ pc'[Client] = "r_preview")
          => LET i == arg_rel[Client]
             IN /\ candidate'[i].by = arg_val[Client]
                /\ Ext(i) = "tga" => candidate'[i].origin = "bottom-left"]_vars

C32_Witness ==
    /\ pc[Client] = "r_preview"
    /\ Ext(arg_rel[Client]) = "tga"
    /\ candidate[arg_rel[Client]] = Upscaled(arg_rel[Client], arg_val[Client])
    /\ entry.candidate[arg_rel[Client]] = Upscaled(arg_rel[Client], preset_order[1])
    /\ arg_val[Client] # preset_order[1]
    /\ arg_rel[Client] \in prep.sent \ prep.failed

\* C34: a rerun of an image larger than max_dimension leaves its candidate the copy
\* of the source that the preparation made; stated for the image measured last.
C34_RerunAppliesSizePolicy ==
    (/\ phase = "serving"
     /\ prep.cursor = NumItems
     /\ SkippedBySize(prep.width, prep.height))
    => candidate[NumItems] = SourceBytes(NumItems)

\* ---- persistence
\* C33: once the session has saved its first manifest, whenever the lock is free
\* the manifest file is the serialization of the session as it is in memory: its
\* records, revision, finalized flag and finalize summary.
C33_ManifestMatchesMemory ==
    (phase = "serving" /\ ~lock) =>
        /\ manifest = manifest_payload(records, revision, finalized, finalize_summary)
        /\ manifest.revision = revision
        /\ manifest.finalized = finalized
        /\ manifest.finalize_summary = finalize_summary
        /\ \A n \in DOMAIN manifest.images :
              manifest.images[n] =
                  to_manifest_dict(manifest.images[n].rel_path,
                                   records[manifest.images[n].rel_path])

C33_Witness ==
    /\ phase = "serving"
    /\ ~lock
    /\ \E t \in Threads : pc[t] = "returned"
    /\ \E i \in DOMAIN records :
          /\ records[i].last_error = ErrNormalize
          /\ candidate[i].origin = "converter"
          /\ \E n \in DOMAIN manifest.images :
                /\ manifest.images[n].rel_path = i
                /\ manifest.images[n].last_error = ErrNormalize
    /\ manifest.revision = NextRevision(NextRevision(InitialRevision))

\* ---- after a finalize
\* C35: no step of a session takes the finalized flag back: once it is true it
\* is true after every later step, and whenever it is true the finalize summary
\* is set, whatever calls follow and however they end.
C35_FinalizedIsTerminal ==
    [][/\ finalized => finalized'
       /\ finalized' => finalize_summary' # NoSummary]_vars

C35_Witness ==
    /\ finalized
    /\ finalize_summary # NoSummary
    /\ since_finalize = "dirty"
    /\ FailedRerun(Client)
    /\ pc[Client] = "unlock"
    /\ manifest.finalized

\* C36: whenever the finalized flag is true and no call is running, the finalize
\* summary counts the records as they are now and the archive holds, for every
\* record, the candidate when the record is accepted now and the original otherwise.
C36_FinalizeResultCurrent ==
    (phase = "serving" /\ finalized /\ ~lock) =>
        /\ finalize_summary.summary = summary(records)
        /\ output_pk3 = [k \in DOMAIN records |->
                            IF records[k].status = REVIEW_STATUS_ACCEPTED
                            THEN candidate[k] ELSE original[k]]

C38_ShutdownWaitsForRerun ==
    http.stage = "exited" =>
        /\ ~lock
        /\ \A t \in Callers : ~InCriticalSection(t)
        /\ manifest # NoManifest =>
              manifest = manifest_payload(records, revision, finalized, finalize_summary)

\* ---- the prior manifest
\* C39: whatever the manifest file holds, loading it raises nothing and the session
\* starts; an image for which the file has no entry with a usable rel_path starts
\* with the first configured preset and, unless its first pipeline run failed,
\* accepted.
C39_UnusableManifestIgnored ==
    /\ phase # "aborted"
    /\ prep # NoPrep => prep.raised = NoError
    /\ (prep # NoPrep /\ phase = "serving") =>
          \A i \in Items :
              i \notin DOMAIN prep.previous =>
                  /\ records[i].selected_preset = preset_order[1]
                  /\ records[i].last_error = NoError =>
                        records[i].status = REVIEW_STATUS_ACCEPTED

====
